---- MODULE Spec2Model ----
(***************************************************************************)
(* Job costing for Elite Wall Systems: the record store (the in-memory     *)
(* demo store of src/src/demo_data.py and the spreadsheet store of         *)
(* src/src/google_sheets.py), the cost aggregator get_job_cost_totals and  *)
(* the per-page financial metrics (Home.py, pages/1_Dashboard.py,          *)
(* pages/6_Reports.py).                                                    *)
(*                                                                         *)
(* Representation.  A Python dict is a function from its keys (strings) to *)
(* values.  A scalar that Python may hold as an int or as a str (an id, a  *)
(* job_id, a customer_id) is [t |-> "int" | "str", v |-> n], where n is    *)
(* the number the value spells.  week_ending is an ISO date string, held   *)
(* as [t |-> "str", v |-> w] with w the ordinal of the week: ISO strings   *)
(* compare as their dates do.  Money is a natural number of dollars.        *)
(***************************************************************************)
EXTENDS Integers, Sequences, FiniteSets, TLC

VARIABLES
    backend,        \* "demo" | "sheets": which store module the pages imported
    customers,      \* st.session_state.customers / the rows of sheet Customers
    vendors,        \* st.session_state.vendors / the rows of sheet Vendors
    jobs,           \* st.session_state.jobs / the rows of sheet Jobs
    weekly_costs,   \* st.session_state.weekly_costs / the rows of sheet WeeklyCosts
    hdr,            \* sheets only: whether each sheet still has its header row
    clock,          \* the reading datetime.now() gives
    nops,           \* operations performed so far
    last,           \* the last operation: name, arguments, path, store before it
    view            \* what the last page run displayed

vars == <<backend, customers, vendors, jobs, weekly_costs, hdr, clock, nops, last, view>>

----------------------------------------------------------------------------
(* Bounds of the model *)

MaxOps == 3
TicksPerDay == 2

----------------------------------------------------------------------------
(* Values and dicts *)

StrV(n) == [t |-> "str", v |-> n]
IntV(n) == [t |-> "int", v |-> n]

\* The empty string "" (an empty cell): it spells no number.
Blank == StrV(-1)

\* Python's None
NoneV == [none |-> TRUE]

\* Python's str(): the string a scalar spells; str(1) and str("1") are both "1".
str(x) == [t |-> "str", v |-> x.v]

\* A dict.update that keeps the value of a key the dict already has
DictKeepOld(c, data) ==
    [k \in DOMAIN c \cup DOMAIN data |-> IF k \in DOMAIN c THEN c[k] ELSE data[k]]

\* dict.update(data): the keys of data overwrite, the other keys stay.
DictUpdate(c, data) ==
    [k \in DOMAIN c \cup DOMAIN data |-> IF k \in DOMAIN data THEN data[k] ELSE c[k]]

\* c.get(k, 0) or 0
GetNum(c, k) == IF k \in DOMAIN c THEN c[k] ELSE 0

Indices(s) == 1..Len(s)

SelectIdx(s, keep(_)) ==
    LET F[i \in 0..Len(s)] ==
            IF i = 0 THEN <<>>
            ELSE IF keep(s[i]) THEN Append(F[i - 1], s[i]) ELSE F[i - 1]
    IN  F[Len(s)]

MinOf(S) == CHOOSE x \in S : \A y \in S : x <= y

\* datetime.now().strftime("%Y%m%d%H%M%S%f"): the reading itself, as a string.
generate_id(now) == StrV(1000 + now)

\* demo store: datetime.now().strftime("%Y-%m-%d"), the day of the reading.
demo_created_at(now) == StrV(now \div TicksPerDay)

\* sheets store: datetime.now().strftime("%Y-%m-%d %H:%M:%S"), the reading.
sheets_created_at(now) == StrV(now)

----------------------------------------------------------------------------
(* The spreadsheet: a sheet is a header row and data rows.                  *)

\* create_worksheet's header of sheet WeeklyCosts
WeeklyCostColumns ==
    {"id", "job_id", "week_ending", "insurance_actual", "labor_actual",
     "stamps_actual", "material_actual", "subs_bond_actual",
     "equipment_actual", "man_days_actual", "notes", "created_at"}

\* The columns whose cells spell numbers: get_all_records() returns them as ints.
NumericCells == {"id", "job_id", "customer_id"}

\* str() of a text cell as get_all_records returns it: a text that spells a
\* number has become that number ("0550" is 550), any other text is itself
numericise_text(text) == IF text = "0550" THEN "550" ELSE text

Numericise(row) ==
    [k \in DOMAIN row |->
        IF k \in NumericCells /\ row[k] # Blank THEN IntV(row[k].v)
        ELSE IF k = "job_number" THEN numericise_text(row[k]) ELSE row[k]]

\* worksheet.get_all_records() as a DataFrame: no rows when the sheet is blank
\* or holds its header only (then df.empty).
sheet_to_dataframe(h, rows) ==
    IF h THEN [i \in DOMAIN rows |-> Numericise(rows[i])] ELSE <<>>

\* worksheet.clear(), then header and rows are written only if the frame has
\* rows: an empty frame leaves the sheet blank, its header row gone.
dataframe_to_sheet(df) ==
    IF df = <<>> THEN [hdr |-> FALSE, rows |-> <<>>]
    ELSE [hdr |-> TRUE, rows |-> df]

\* headers = ws.row_values(1); row = [data.get(h, '') for h in headers];
\* ws.append_row(row).  On a blank sheet headers is [], the row is [] and
\* nothing is added.  (Every modelled data supplies all the columns.)
append_row(h, rows, data, cols) ==
    IF h THEN [hdr |-> TRUE, rows |-> Append(rows, [k \in cols \cap DOMAIN data |-> data[k]])]
    ELSE [hdr |-> FALSE, rows |-> rows]

----------------------------------------------------------------------------
(* Weekly cost operations *)

\* A key comparison without str(): 1 and "1" are different jobs
KeyMatchRaw(c, job_id, week_ending) ==
    /\ c.job_id = job_id
    /\ c.week_ending = week_ending

\* A key match that looks at the job only
KeyMatchJob(c, job_id, week_ending) == str(c.job_id) = str(job_id)

\* str(c["job_id"]) == job_id and str(c["week_ending"]) == week_ending
KeyMatch(c, job_id, week_ending) ==
    /\ str(c.job_id) = str(job_id)
    /\ str(c.week_ending) = str(week_ending)

\* A job filter that lets every entry through
JobMatchAny(c, job_id) == TRUE

JobMatch(c, job_id) == str(c.job_id) = str(job_id)

\* An upsert that replaces the entry of the key by a new one
demo_upsert_replace(costs, data, now) ==
    LET hit == {i \in Indices(costs) :
                   /\ str(costs[i].job_id) = str(data.job_id)
                   /\ str(costs[i].week_ending) = str(data.week_ending)}
        new == [k \in DOMAIN data \cup {"id", "created_at"} |->
                   IF k = "id" THEN [t |-> "str", v |-> 1000 + now]
                   ELSE IF k = "created_at" THEN [t |-> "str", v |-> now]
                   ELSE data[k]]
    IN  IF hit = {} THEN Append(costs, new)
        ELSE [costs EXCEPT ![CHOOSE i \in hit : \A j \in hit : i <= j] = new]

\* demo_data.upsert_weekly_cost: the new list weekly_costs
demo_upsert_weekly_cost(costs, data, now) ==
    LET hit == {i \in Indices(costs) : KeyMatch(costs[i], data.job_id, data.week_ending)}
    IN  IF hit # {}
        THEN [costs EXCEPT ![MinOf(hit)] = DictUpdate(@, data)]
        ELSE Append(costs, DictUpdate(data, [id |-> generate_id(now),
                                             created_at |-> demo_created_at(now)]))

\* df.loc[mask, key] = value for key in data if key in df.columns and key != 'id'
SheetsMerge(row, data) ==
    [k \in DOMAIN row |-> IF k \in DOMAIN data /\ k # "id" THEN data[k] ELSE row[k]]

\* google_sheets.upsert_weekly_cost: the new sheet WeeklyCosts
sheets_upsert_weekly_cost(h, rows, data, now) ==
    LET df == sheet_to_dataframe(h, rows)
        new == DictUpdate(data, [id |-> generate_id(now),
                                 created_at |-> sheets_created_at(now)])
        mask == {i \in Indices(df) : KeyMatch(df[i], data.job_id, data.week_ending)}
    IN  IF df = <<>> THEN append_row(h, rows, new, WeeklyCostColumns)
        ELSE IF mask # {}
             THEN dataframe_to_sheet(
                      [i \in DOMAIN df |-> IF i \in mask THEN SheetsMerge(df[i], data)
                                           ELSE df[i]])
             ELSE append_row(h, rows, new, WeeklyCostColumns)

\* A delete_job that leaves the job's weekly costs
demo_delete_job_only(js, costs, job_id) ==
    [jobs |-> SelectIdx(js, LAMBDA j : str(j.id) # str(job_id)),
     costs |-> costs]

\* demo_data.delete_job
demo_delete_job(js, costs, job_id) ==
    [jobs |-> SelectIdx(js, LAMBDA j : str(j.id) # str(job_id)),
     costs |-> SelectIdx(costs, LAMBDA c : ~JobMatch(c, job_id))]

\* A delete_job of the sheets store that leaves the sheet WeeklyCosts
sheets_delete_job_only(hj, jrows, hc, crows, job_id) ==
    LET df == sheet_to_dataframe(hj, jrows)
    IN  IF df = <<>>
        THEN [raised |-> TRUE, jobs |-> [hdr |-> hj, rows |-> jrows],
              costs |-> [hdr |-> hc, rows |-> crows]]
        ELSE [raised |-> FALSE,
              jobs |-> dataframe_to_sheet(SelectIdx(df, LAMBDA j : str(j.id) # str(job_id))),
              costs |-> [hdr |-> hc, rows |-> crows]]

\* google_sheets.delete_job: df['id'] raises KeyError on a frame without
\* columns (a Jobs sheet without data rows); else both sheets are rewritten.
sheets_delete_job(hj, jrows, hc, crows, job_id) ==
    LET df == sheet_to_dataframe(hj, jrows)
        df_costs == sheet_to_dataframe(hc, crows)
    IN  IF df = <<>>
        THEN [raised |-> TRUE, jobs |-> [hdr |-> hj, rows |-> jrows],
              costs |-> [hdr |-> hc, rows |-> crows]]
        ELSE [raised |-> FALSE,
              jobs |-> dataframe_to_sheet(SelectIdx(df, LAMBDA j : str(j.id) # str(job_id))),
              costs |-> IF df_costs # <<>>
                        THEN dataframe_to_sheet(
                                 SelectIdx(df_costs, LAMBDA c : ~JobMatch(c, job_id)))
                        ELSE [hdr |-> hc, rows |-> crows]]

\* sorted(costs, key=lambda x: x["week_ending"], reverse=True): stable, latest first
InsertDesc(t, x) ==
    LET n == Cardinality({j \in Indices(t) : t[j].week_ending.v >= x.week_ending.v})
    IN  SubSeq(t, 1, n) \o <<x>> \o SubSeq(t, n + 1, Len(t))

\* The entries left in the order they are stored in
KeepOrder(s) == s

SortDesc(s) ==
    LET F[i \in 0..Len(s)] == IF i = 0 THEN <<>> ELSE InsertDesc(F[i - 1], s[i])
    IN  F[Len(s)]

\* demo_data.get_weekly_costs_by_job
demo_get_weekly_costs_by_job(costs, job_id) ==
    SortDesc(SelectIdx(costs, LAMBDA c : JobMatch(c, job_id)))

\* A value of an amount's field that spells no number ("abc"); the amounts
\* themselves are never negative.
NonNumeric == -1

ActualColumns ==
    {"insurance_actual", "labor_actual", "stamps_actual", "material_actual",
     "subs_bond_actual", "equipment_actual", "man_days_actual"}

\* pd.to_numeric(df[col], errors='coerce').fillna(0) of the *_actual columns
to_numeric(row) ==
    [k \in DOMAIN row |->
        IF k \in ActualColumns /\ row[k] = NonNumeric THEN 0 ELSE row[k]]

\* google_sheets.get_weekly_costs_by_job
sheets_get_weekly_costs_by_job(h, rows, job_id) ==
    LET df == sheet_to_dataframe(h, rows)
        of_job == SelectIdx(df, LAMBDA c : JobMatch(c, job_id))
    IN  IF df = <<>> THEN <<>>
        ELSE SortDesc([i \in DOMAIN of_job |-> to_numeric(of_job[i])])

\* sum(float(c.get(k, 0) or 0) for c in costs)
SumField(costs, k) ==
    LET F[i \in 0..Len(costs)] == IF i = 0 THEN 0 ELSE F[i - 1] + GetNum(costs[i], k)
    IN  F[Len(costs)]

ZeroTotals ==
    [insurance |-> 0, labor |-> 0, stamps |-> 0, material |-> 0,
     subs_bond |-> 0, equipment |-> 0, man_days |-> 0, total |-> 0]

\* Totals whose total counts the man days
job_cost_totals_with_man_days(costs) ==
    LET t == [insurance |-> SumField(costs, "insurance_actual"),
              labor     |-> SumField(costs, "labor_actual"),
              stamps    |-> SumField(costs, "stamps_actual"),
              material  |-> SumField(costs, "material_actual"),
              subs_bond |-> SumField(costs, "subs_bond_actual"),
              equipment |-> SumField(costs, "equipment_actual"),
              man_days  |-> SumField(costs, "man_days_actual")]
    IN  [k \in DOMAIN t \cup {"total"} |->
            IF k = "total"
            THEN t.insurance + t.labor + t.stamps + t.material
                 + t.subs_bond + t.equipment + t.man_days
            ELSE t[k]]

\* get_job_cost_totals, from the entries get_weekly_costs_by_job returned
\* (the same code in both stores)
job_cost_totals(costs) ==
    IF costs = <<>> THEN ZeroTotals
    ELSE LET t == [insurance |-> SumField(costs, "insurance_actual"),
                   labor     |-> SumField(costs, "labor_actual"),
                   stamps    |-> SumField(costs, "stamps_actual"),
                   material  |-> SumField(costs, "material_actual"),
                   subs_bond |-> SumField(costs, "subs_bond_actual"),
                   equipment |-> SumField(costs, "equipment_actual"),
                   man_days  |-> SumField(costs, "man_days_actual")]
         IN  [k \in DOMAIN t \cup {"total"} |->
                 IF k = "total"
                 THEN t.insurance + t.labor + t.stamps + t.material
                      + t.subs_bond + t.equipment
                 ELSE t[k]]

\* get_weekly_costs_by_job of the store the pages imported
weekly_costs_by_job(b, h, costs, job_id) ==
    IF b = "demo" THEN demo_get_weekly_costs_by_job(costs, job_id)
    ELSE sheets_get_weekly_costs_by_job(h, costs, job_id)

get_weekly_costs_by_job(job_id) ==
    weekly_costs_by_job(backend, hdr.WeeklyCosts, weekly_costs, job_id)

get_job_cost_totals(job_id) == job_cost_totals(get_weekly_costs_by_job(job_id))

\* float(c.get(k, 0) or 0) raises ValueError on a string that spells no
\* number: get_job_cost_totals raises when an entry it sums holds one.
job_cost_totals_raises(costs) ==
    \E i \in Indices(costs) : \E k \in ActualColumns \cap DOMAIN costs[i] :
        costs[i][k] = NonNumeric

\* A call of get_job_cost_totals: whether it raised, and what it returned
get_job_cost_totals_call(job_id) ==
    LET costs == get_weekly_costs_by_job(job_id)
    IN  IF job_cost_totals_raises(costs) THEN [raised |-> TRUE, totals |-> <<>>]
        ELSE [raised |-> FALSE, totals |-> job_cost_totals(costs)]

----------------------------------------------------------------------------
(* Customer and job operations *)

MaxOf(S) == CHOOSE x \in S : \A y \in S : x >= y

\* demo_data.get_all_customers: c.get("is_active", True)
demo_get_all_customers(custs) ==
    SelectIdx(custs, LAMBDA c : IF "is_active" \in DOMAIN c THEN c.is_active ELSE TRUE)

\* google_sheets.get_all_customers: the rows whose is_active is not False
sheets_get_all_customers(h, rows) ==
    SelectIdx(sheet_to_dataframe(h, rows), LAMBDA c : c.is_active # FALSE)

\* demo_data.get_all_jobs: the dict customers is keyed by c["id"] as stored and
\* holds every customer, looked up by str(customer_id); a later customer of
\* the same id wins.  The job dicts of the list are the stored ones: the key
\* "customers" is set on the stored jobs.
demo_get_all_jobs(js, custs) ==
    [i \in DOMAIN js |->
        LET hit == {c \in Indices(custs) : custs[c].id = str(js[i].customer_id)}
        IN  DictUpdate(js[i],
                [customers |-> IF hit # {} THEN [name |-> custs[MaxOf(hit)].name]
                               ELSE NoneV])]

\* float(job.get(field, 0) or 0) of the numeric fields: the model's amounts
\* are numbers already
JobNumeric(job) == job

\* google_sheets.get_all_jobs: the dict customers is keyed by str(c['id']) and
\* holds the active customers; the records are copies of the rows.
sheets_get_all_jobs(hj, jrows, hc, crows) ==
    LET df == sheet_to_dataframe(hj, jrows)
        cs == sheets_get_all_customers(hc, crows)
    IN  [i \in DOMAIN df |->
            LET hit == {c \in Indices(cs) : str(cs[c].id) = str(df[i].customer_id)}
            IN  JobNumeric(DictUpdate(df[i],
                    [customers |-> IF hit # {} THEN [name |-> cs[MaxOf(hit)].name]
                                   ELSE NoneV]))]

\* demo_data.update_job: the first job of the id takes the keys of data
demo_update_job(js, job_id, data) ==
    LET hit == {i \in Indices(js) : str(js[i].id) = str(job_id)}
    IN  IF hit # {} THEN [js EXCEPT ![MinOf(hit)] = DictUpdate(@, data)] ELSE js

\* df.loc[mask, key] = value for key in data if key in df.columns
SheetsSet(row, data) ==
    [k \in DOMAIN row |-> IF k \in DOMAIN data THEN data[k] ELSE row[k]]

\* google_sheets.update_job: df['id'] raises KeyError on a frame without
\* columns; else every row of the id takes data and updated_at, and the sheet
\* is rewritten.
sheets_update_job(h, rows, job_id, data, now) ==
    LET df == sheet_to_dataframe(h, rows)
        d == DictUpdate(data, [updated_at |-> sheets_created_at(now)])
        mask == {i \in Indices(df) : str(df[i].id) = str(job_id)}
    IN  IF df = <<>> THEN [raised |-> TRUE, hdr |-> h, rows |-> rows]
        ELSE IF mask # {}
             THEN [raised |-> FALSE] @@
                  dataframe_to_sheet([i \in DOMAIN df |->
                      IF i \in mask THEN SheetsSet(df[i], d) ELSE df[i]])
             ELSE [raised |-> FALSE, hdr |-> h, rows |-> rows]

----------------------------------------------------------------------------
(* Customer and vendor operations: the vendor functions are the customer
   functions on the other collection *)

\* create_worksheet's headers of the sheets Customers and Vendors, as far as
\* the records carry them
CustomerColumns == {"id", "name", "notes", "is_active", "created_at"}
VendorColumns == {"id", "name", "vendor_type", "notes", "is_active", "created_at"}

\* demo_data.create_customer, create_vendor
demo_create_customer(recs, data, now) ==
    Append(recs, DictUpdate(data, [id |-> generate_id(now), is_active |-> TRUE,
                                   created_at |-> demo_created_at(now)]))

demo_create_vendor(recs, data, now) == demo_create_customer(recs, data, now)

\* demo_data.update_customer, update_vendor: the first record of the id
demo_update_customer(recs, id, data) ==
    LET hit == {i \in Indices(recs) : str(recs[i].id) = str(id)}
    IN  IF hit # {} THEN [recs EXCEPT ![MinOf(hit)] = DictUpdate(@, data)] ELSE recs

demo_update_vendor(recs, id, data) == demo_update_customer(recs, id, data)

\* A delete that removes the records of the id
demo_delete_customer_hard(recs, id) ==
    SelectIdx(recs, LAMBDA c : str(c.id) # str(id))

\* demo_data.delete_customer, delete_vendor: every record of the id
demo_delete_customer(recs, id) ==
    [i \in DOMAIN recs |->
        IF str(recs[i].id) = str(id) THEN DictUpdate(recs[i], [is_active |-> FALSE])
        ELSE recs[i]]

demo_delete_vendor(recs, id) == demo_delete_customer(recs, id)

\* demo_data.get_customer_by_id, get_vendor_by_id: among all the records
demo_get_customer_by_id(recs, id) ==
    LET hit == {i \in Indices(recs) : str(recs[i].id) = str(id)}
    IN  IF hit # {} THEN recs[MinOf(hit)] ELSE NoneV

\* google_sheets.create_customer, create_vendor
sheets_create_customer(h, rows, data, now, cols) ==
    append_row(h, rows,
               DictUpdate(data, [id |-> generate_id(now), is_active |-> TRUE,
                                 created_at |-> sheets_created_at(now)]),
               cols)

\* google_sheets.update_customer, update_vendor: df['id'] raises KeyError on
\* a frame without columns; else every row of the id takes data and the sheet
\* is rewritten.
sheets_update_customer(h, rows, id, data) ==
    LET df == sheet_to_dataframe(h, rows)
        mask == {i \in Indices(df) : str(df[i].id) = str(id)}
    IN  IF df = <<>> THEN [raised |-> TRUE, hdr |-> h, rows |-> rows]
        ELSE IF mask # {}
             THEN [raised |-> FALSE] @@
                  dataframe_to_sheet([i \in DOMAIN df |->
                      IF i \in mask THEN SheetsSet(df[i], data) ELSE df[i]])
             ELSE [raised |-> FALSE, hdr |-> h, rows |-> rows]

\* google_sheets.delete_customer, delete_vendor
sheets_delete_customer(h, rows, id) ==
    sheets_update_customer(h, rows, id, [is_active |-> FALSE])

\* google_sheets.get_customer_by_id, get_vendor_by_id: among the active rows
sheets_get_customer_by_id(h, rows, id) ==
    LET cs == sheets_get_all_customers(h, rows)
        hit == {i \in Indices(cs) : str(cs[i].id) = str(id)}
    IN  IF hit # {} THEN cs[MinOf(hit)] ELSE NoneV

----------------------------------------------------------------------------
(* Seed records and the inputs of the operations *)

\* Of a customer's and a vendor's text fields (contact_name, phone, email,
\* address, notes) the records carry notes; the others are handled as it is.
Customer(id, name) ==
    [id |-> StrV(id), name |-> name, notes |-> "", is_active |-> TRUE,
     created_at |-> StrV(0)]

\* init_demo_data's customers "1" and "2"
SeedCustomers ==
    <<Customer(1, "Promethean Construction"), Customer(2, "Skanska USA")>>

\* init_demo_data's vendor "1"
SeedVendors ==
    <<[id |-> StrV(1), name |-> "ABC Materials Supply", vendor_type |-> "supplier",
       notes |-> "Net 30 terms", is_active |-> TRUE]>>

Job(id, number, name, cust, contract, pending, approved, status, b) ==
    [id |-> StrV(id), job_number |-> number, job_name |-> name,
     customer_id |-> StrV(cust), contract_amount |-> contract,
     pending_change_orders |-> pending, approved_change_orders |-> approved,
     status |-> status,
     budget_insurance |-> b[1], budget_labor |-> b[2], budget_stamps |-> b[3],
     budget_material |-> b[4], budget_subs_bond |-> b[5], budget_equipment |-> b[6]]

\* init_demo_data's jobs "550" (active) and "552" (estimate), as ids 1 and 2
SeedJobs ==
    <<Job(1, "550", "Linden Grove Apartments", 1, 485000, 15000, 8500, "active",
          <<12000, 180000, 25000, 145000, 65000, 28000>>),
      Job(2, "552", "Greenpoint Retail Center", 1, 195000, 8000, 0, "estimate",
          <<5000, 72000, 10000, 58000, 28000, 12000>>)>>

CostFields(ins, lab, st, mat, sb, eq, md, notes) ==
    [insurance_actual |-> ins, labor_actual |-> lab, stamps_actual |-> st,
     material_actual |-> mat, subs_bond_actual |-> sb, equipment_actual |-> eq,
     man_days_actual |-> md, notes |-> notes]

\* A week's amounts; the same week with labor raised from 100 to 150; a week
\* that differs in every field.
E100 == CostFields(1, 100, 2, 3, 4, 5, 6, "a")
E150 == CostFields(1, 150, 2, 3, 4, 5, 6, "a")
EB == CostFields(10, 20, 30, 40, 50, 60, 7, "b")

\* The values the Cost Entry form is submitted with
FormValues == {E150, EB}

\* The job ids an operation is called with: job 1 as a str and as an int, job 2.
JobIdArgs == {StrV(1), IntV(1), StrV(2)}

\* str(selected_week) of two of get_last_n_week_endings' Saturdays
WeekArgs == {StrV(1), StrV(2)}

\* The Cost Entry form's cost_data
cost_data(job_id, week_ending, f) ==
    DictUpdate(f, [job_id |-> job_id, week_ending |-> week_ending])

CostInputs ==
    {cost_data(j, w, f) : j \in JobIdArgs, w \in WeekArgs, f \in FormValues}

\* init_demo_data's weekly cost rows: one week of the active job, with one
\* draw of its random amounts
SeedCosts ==
    <<DictUpdate(cost_data(StrV(1), StrV(1), E100),
                 [id |-> StrV(10), created_at |-> StrV(0)])>>

----------------------------------------------------------------------------
(* The store's operations as steps *)

Init ==
    /\ backend \in {"demo", "sheets"}
    /\ customers = SeedCustomers
    /\ vendors = SeedVendors
    /\ jobs = SeedJobs
    /\ weekly_costs = SeedCosts
    /\ hdr = [Customers |-> TRUE, Vendors |-> TRUE, Jobs |-> TRUE, WeeklyCosts |-> TRUE]
    /\ clock = 1
    /\ nops = 0
    /\ last = [op |-> "init", arg |-> <<>>]
    /\ view = <<>>

\* What the next operation records of the state it starts from, and of the
\* operation before it.
Before == [costs |-> weekly_costs, jobs |-> jobs, hdr |-> hdr,
           customers |-> customers, vendors |-> vendors]
Prev == [op |-> last.op, arg |-> last.arg]

UpsertWeeklyCost(data) ==
    /\ nops < MaxOps
    /\ LET r == IF backend = "demo"
                THEN [hdr |-> hdr.WeeklyCosts,
                      rows |-> demo_upsert_weekly_cost(weekly_costs, data, clock)]
                ELSE sheets_upsert_weekly_cost(hdr.WeeklyCosts, weekly_costs, data, clock)
       IN  /\ weekly_costs' = r.rows
           /\ hdr' = [hdr EXCEPT !.WeeklyCosts = r.hdr]
    /\ last' = [op |-> "upsert_weekly_cost", arg |-> data, raised |-> FALSE,
                before |-> Before, prev |-> Prev]
    /\ nops' = nops + 1
    /\ UNCHANGED <<backend, customers, vendors, jobs, clock, view>>

DeleteJob(job_id) ==
    /\ nops < MaxOps
    /\ LET r == IF backend = "demo"
                THEN LET d == demo_delete_job(jobs, weekly_costs, job_id)
                     IN  [raised |-> FALSE,
                          jobs |-> [hdr |-> hdr.Jobs, rows |-> d.jobs],
                          costs |-> [hdr |-> hdr.WeeklyCosts, rows |-> d.costs]]
                ELSE sheets_delete_job(hdr.Jobs, jobs, hdr.WeeklyCosts, weekly_costs, job_id)
       IN  /\ jobs' = r.jobs.rows
           /\ weekly_costs' = r.costs.rows
           /\ hdr' = [hdr EXCEPT !.Jobs = r.jobs.hdr, !.WeeklyCosts = r.costs.hdr]
           /\ last' = [op |-> "delete_job", arg |-> job_id, raised |-> r.raised,
                       before |-> Before, prev |-> Prev]
    /\ nops' = nops + 1
    /\ UNCHANGED <<backend, customers, vendors, clock, view>>

\* Time passes between two operations (or does not: two operations can read
\* the same datetime.now()).
Tick ==
    /\ nops < MaxOps
    /\ clock' = clock + 1
    /\ nops' = nops + 1
    /\ UNCHANGED <<backend, customers, vendors, jobs, weekly_costs, hdr, last, view>>

Next ==
    \/ \E data \in CostInputs : UpsertWeeklyCost(data)
    \/ \E job_id \in JobIdArgs : DeleteJob(job_id)
    \/ Tick

Spec == Init /\ [][Next]_vars

----------------------------------------------------------------------------
(* The pages: what each one computes of a job and shows *)

\* get_all_jobs() and get_all_customers() of the backend in use
get_all_jobs ==
    IF backend = "demo" THEN demo_get_all_jobs(jobs, customers)
    ELSE sheets_get_all_jobs(hdr.Jobs, jobs, hdr.Customers, customers)

get_all_customers ==
    IF backend = "demo" THEN demo_get_all_customers(customers)
    ELSE sheets_get_all_customers(hdr.Customers, customers)

\* The store after get_all_jobs(): the demo backend sets "customers" on the
\* stored dicts, the sheets backend only reads.
JobsAfterLoad == IF backend = "demo" THEN get_all_jobs ELSE jobs

\* x / y, not taken times 100
Ratio(x, y) == [num |-> x, den |-> y]

\* x / y * 100 as the exact fraction 100x / y, and the literal 0
Pct(x, y) == [num |-> x * 100, den |-> y]
ZeroPct == [num |-> 0, den |-> 1]

\* pct <= n, for a fraction of positive denominator
PctLeq(pct, n) == pct.num <= n * pct.den

\* job.get("customers", {}).get("name", "N/A") if job.get("customers") else "N/A"
customer_name(job) ==
    IF "customers" \in DOMAIN job /\ job.customers # NoneV THEN job.customers.name
    ELSE "N/A"

\* A revenue that counts the pending change orders
total_revenue_with_pending(job) ==
    job.contract_amount + job.approved_change_orders + job.pending_change_orders

\* Home.py, 1_Dashboard.py, 6_Reports.py, 2_Jobs.py: total_revenue
total_revenue(job) == job.contract_amount + job.approved_change_orders

total_budget(job) ==
    job.budget_insurance + job.budget_labor + job.budget_stamps
    + job.budget_material + job.budget_subs_bond + job.budget_equipment

\* An indicator whose thresholds are exclusive
status_indicator_strict(budget_pct) ==
    IF budget_pct.num < 90 * budget_pct.den THEN "on_track"
    ELSE IF budget_pct.num < 100 * budget_pct.den THEN "watch" ELSE "over_budget"

\* Home's status_indicator: green, yellow, red
status_indicator(budget_pct) ==
    IF PctLeq(budget_pct, 90) THEN "on_track"
    ELSE IF PctLeq(budget_pct, 100) THEN "watch" ELSE "over_budget"

\* Home.py, a row of the active jobs table
HomeRow(job) ==
    LET revenue == total_revenue(job)
        budget == total_budget(job)
        cost == get_job_cost_totals(job.id).total
        profit == IF revenue > 0 THEN revenue - cost ELSE 0
        profit_pct == IF revenue > 0 THEN Pct(profit, revenue) ELSE ZeroPct
        budget_pct == IF budget > 0 THEN Pct(cost, budget) ELSE ZeroPct
    IN  [job_number |-> job.job_number, customer |-> customer_name(job),
         status |-> status_indicator(budget_pct), budget |-> budget,
         revenue |-> revenue, cost |-> cost, budget_used |-> budget_pct,
         profit |-> profit, margin |-> profit_pct]

\* 1_Dashboard.py, an element of job_metrics
DashboardRow(job) ==
    LET revenue == total_revenue(job)
        budget == total_budget(job)
        cost == get_job_cost_totals(job.id).total
    IN  [job_number |-> job.job_number, customer |-> customer_name(job),
         status |-> job.status, budget |-> budget,
         revenue |-> revenue, cost |-> cost,
         profit |-> revenue - cost,
         margin |-> IF revenue > 0 THEN Pct(revenue - cost, revenue) ELSE ZeroPct,
         budget_used |-> IF budget > 0 THEN Pct(cost, budget) ELSE ZeroPct]

\* 6_Reports.py, a row of the Job Cost Summary ("Total Revenue", "Total Cost",
\* "Profit", "Margin %")
SummaryRow(job) ==
    LET revenue == total_revenue(job)
        cost == get_job_cost_totals(job.id).total
        profit == revenue - cost
    IN  [job_number |-> job.job_number, customer |-> customer_name(job),
         status |-> job.status,
         revenue |-> revenue, cost |-> cost, profit |-> profit,
         margin |-> IF revenue > 0 THEN Pct(profit, revenue) ELSE ZeroPct]

\* 6_Reports.py, an element of the Job Profitability Analysis' profit_data
ProfitRow(job) ==
    LET revenue == total_revenue(job)
        cost == get_job_cost_totals(job.id).total
        profit == revenue - cost
    IN  [job_number |-> job.job_number, status |-> job.status,
         revenue |-> revenue, cost |-> cost, profit |-> profit,
         margin |-> IF revenue > 0 THEN Pct(profit, revenue) ELSE ZeroPct]

\* 2_Jobs.py, the list's expander of a job; 3_Cost_Entry.py, the header of
\* the selected job
JobsListRow(job) ==
    [job_number |-> job.job_number, customer |-> customer_name(job),
     revenue |-> total_revenue(job), cost |-> get_job_cost_totals(job.id).total]

CostEntryHeader(job) ==
    [job_number |-> job.job_number, customer |-> customer_name(job),
     revenue |-> job.contract_amount + job.approved_change_orders,
     cost |-> get_job_cost_totals(job.id).total]

\* An indicator whose 10 percent threshold is exclusive
get_variance_indicator_strict(actual, budget) ==
    IF budget = 0 THEN "none"
    ELSE IF 10 * (actual - budget) >= budget THEN "over_budget"
    ELSE IF actual - budget > 0 THEN "watch"
    ELSE "on_track"

\* utils.get_variance_indicator of two numbers: "" is none, red over_budget,
\* yellow watch, green on_track.  variance > budget * 0.1, in tenths.
get_variance_indicator(actual, budget) ==
    IF budget = 0 THEN "none"
    ELSE IF 10 * (actual - budget) > budget THEN "over_budget"
    ELSE IF actual - budget > 0 THEN "watch"
    ELSE "on_track"

\* 3_Cost_Entry.py, Budget vs Actual Summary of the selected job
BudgetVsActual(job) ==
    LET totals == get_job_cost_totals(job.id)
        Row(category, budget, actual) ==
            [category |-> category, budget |-> budget, actual |-> actual,
             variance |-> actual - budget,
             status |-> get_variance_indicator(actual, budget)]
    IN  <<Row("Insurance", job.budget_insurance, totals.insurance),
          Row("Labor", job.budget_labor, totals.labor),
          Row("Stamps", job.budget_stamps, totals.stamps),
          Row("Materials", job.budget_material, totals.material),
          Row("Subs/Bond", job.budget_subs_bond, totals.subs_bond),
          Row("Equipment", job.budget_equipment, totals.equipment),
          Row("TOTAL", total_budget(job), totals.total)>>

RowsOf(js, Row(_)) == [i \in DOMAIN js |-> Row(js[i])]

\* a count that also takes the jobs whose costs equal their budget
over_budget_jobs_at_budget(active) ==
    Cardinality({i \in Indices(active) :
        /\ total_budget(active[i]) > 0
        /\ get_job_cost_totals(active[i].id).total >= total_budget(active[i])})

\* Home's count of the active jobs over budget
over_budget_jobs(active) ==
    Cardinality({i \in Indices(active) :
        /\ total_budget(active[i]) > 0
        /\ get_job_cost_totals(active[i].id).total > total_budget(active[i])})

PageDone(name) == last' = [op |-> name, arg |-> <<>>]

HomePage ==
    /\ LET active == SelectIdx(get_all_jobs, LAMBDA j : j.status = "active")
       IN  view' = [page |-> "Home", over_budget_jobs |-> over_budget_jobs(active),
                    rows |-> RowsOf(active, HomeRow)]
    /\ jobs' = JobsAfterLoad
    /\ PageDone("Home")
    /\ UNCHANGED <<backend, customers, vendors, weekly_costs, hdr, clock, nops>>

DashboardPage ==
    /\ view' = [page |-> "Dashboard", rows |-> RowsOf(get_all_jobs, DashboardRow)]
    /\ jobs' = JobsAfterLoad
    /\ PageDone("Dashboard")
    /\ UNCHANGED <<backend, customers, vendors, weekly_costs, hdr, clock, nops>>

\* Reports, "Job Cost Summary" of "All Jobs"
JobCostSummaryReport ==
    /\ view' = [page |-> "JobCostSummary", rows |-> RowsOf(get_all_jobs, SummaryRow)]
    /\ jobs' = JobsAfterLoad
    /\ PageDone("JobCostSummary")
    /\ UNCHANGED <<backend, customers, vendors, weekly_costs, hdr, clock, nops>>

\* Reports, "Job Profitability Analysis" with the default status filter
ProfitabilityReport ==
    /\ view' = [page |-> "Profitability",
                rows |-> SelectIdx(RowsOf(get_all_jobs, ProfitRow),
                            LAMBDA r : r.status \in {"active", "completed"})]
    /\ jobs' = JobsAfterLoad
    /\ PageDone("Profitability")
    /\ UNCHANGED <<backend, customers, vendors, weekly_costs, hdr, clock, nops>>

\* Jobs, tab "All Jobs" without a filter
JobsPage ==
    /\ view' = [page |-> "Jobs", rows |-> RowsOf(get_all_jobs, JobsListRow)]
    /\ jobs' = JobsAfterLoad
    /\ PageDone("Jobs")
    /\ UNCHANGED <<backend, customers, vendors, weekly_costs, hdr, clock, nops>>

\* Cost Entry with the i-th job selected
CostEntryPage(i) ==
    /\ i \in Indices(get_all_jobs)
    /\ view' = [page |-> "CostEntry", rows |-> <<CostEntryHeader(get_all_jobs[i])>>,
                summary |-> BudgetVsActual(get_all_jobs[i])]
    /\ jobs' = JobsAfterLoad
    /\ PageDone("CostEntry")
    /\ UNCHANGED <<backend, customers, vendors, weekly_costs, hdr, clock, nops>>

\* The edit form's customer id: the id of the first listed customer that has
\* the selected name, "" for "Select Customer..."
edit_customer_id(job, custs) ==
    LET cur == IF job.customer_id = Blank THEN {}
               ELSE {c \in Indices(custs) : str(custs[c].id) = str(job.customer_id)}
    IN  IF cur = {} THEN Blank
        ELSE LET edit_customer == custs[MinOf(cur)].name
                 named == {c \in Indices(custs) : custs[c].name = edit_customer}
             IN  custs[MinOf(named)].id

\* The edit form's update_data, the form left as loaded but for Pending COs
update_data(job, custs, pending) ==
    [job_name |-> job.job_name,
     customer_id |-> edit_customer_id(job, custs),
     status |-> job.status,
     contract_amount |-> job.contract_amount,
     pending_change_orders |-> pending,
     approved_change_orders |-> job.approved_change_orders,
     budget_insurance |-> job.budget_insurance,
     budget_labor |-> job.budget_labor,
     budget_stamps |-> job.budget_stamps,
     budget_material |-> job.budget_material,
     budget_subs_bond |-> job.budget_subs_bond,
     budget_equipment |-> job.budget_equipment]

\* The amounts Pending COs is set to
PendingValues == {0, 8000}

\* Jobs, tab "Edit Job": the i-th job is edited and saved.  The page loads
\* the jobs, the form is filled from the job, update_job stores update_data;
\* an exception of update_job is shown and the store is as it was.
EditJob(i, pending) ==
    /\ i \in Indices(get_all_jobs)
    /\ LET job == get_all_jobs[i]
           data == update_data(job, get_all_customers, pending)
           r == IF backend = "demo"
                THEN [raised |-> FALSE, hdr |-> hdr.Jobs,
                      rows |-> demo_update_job(JobsAfterLoad, job.id, data)]
                ELSE sheets_update_job(hdr.Jobs, jobs, job.id, data, clock)
       IN  /\ jobs' = r.rows
           /\ hdr' = [hdr EXCEPT !.Jobs = r.hdr]
           /\ last' = [op |-> "edit_job", arg |-> <<i, pending>>, raised |-> r.raised,
                       before |-> Before]
    /\ view' = <<>>
    /\ UNCHANGED <<backend, customers, vendors, weekly_costs, clock, nops>>

\* The jobs the pages are looked at with: an active job whose amounts are
\* drawn, and a completed job without revenue or budget that has costs.
ContractValues == {0, 1000}
ApprovedValues == {0, 500}
BudgetValues == {0, 1000}
CostValues == {900, 901, 1000, 1001, 1095, 1100, 1101}

PageJobs(contract, approved, pending, budget) ==
    <<Job(1, "550", "Linden Grove Apartments", 1, contract, pending, approved,
          "active", <<0, budget, 0, 0, 0, 0>>),
      Job(2, "545", "Riverside Office Complex", 2, 0, 0, 0,
          "completed", <<0, 0, 0, 0, 0, 0>>)>>

PageCosts(cost) ==
    <<DictUpdate(cost_data(StrV(1), StrV(1), CostFields(0, cost, 0, 0, 0, 0, 6, "a")),
                 [id |-> StrV(10), created_at |-> StrV(0)]),
      DictUpdate(cost_data(StrV(2), StrV(1), E100),
                 [id |-> StrV(11), created_at |-> StrV(0)])>>

\* A sheet's rows carry every column of its header
SheetJob(job) == DictUpdate(job, [created_at |-> StrV(0), updated_at |-> StrV(0)])

InitPages ==
    /\ backend \in {"demo", "sheets"}
    /\ customers = SeedCustomers
    /\ vendors = SeedVendors
    /\ \E contract \in ContractValues, approved \in ApprovedValues,
          pending \in PendingValues, budget \in BudgetValues :
          LET js == PageJobs(contract, approved, pending, budget)
          IN  jobs = IF backend = "demo" THEN js
                     ELSE [i \in DOMAIN js |-> SheetJob(js[i])]
    /\ \E cost \in CostValues : weekly_costs = PageCosts(cost)
    /\ hdr = [Customers |-> TRUE, Vendors |-> TRUE, Jobs |-> TRUE, WeeklyCosts |-> TRUE]
    /\ clock = 1
    /\ nops = 0
    /\ last = [op |-> "init", arg |-> <<>>]
    /\ view = <<>>

NextPages ==
    \/ HomePage
    \/ DashboardPage
    \/ JobCostSummaryReport
    \/ ProfitabilityReport
    \/ JobsPage
    \/ \E i \in 1..2 : CostEntryPage(i)
    \/ \E i \in 1..2, pending \in PendingValues : EditJob(i, pending)

SpecPages == InitPages /\ [][NextPages]_vars

----------------------------------------------------------------------------
(* Totals of a store whose rows were not all written by the Cost Entry form *)

\* Two weeks of job 1 and a week of job 2; the field k of the e-th entry
\* holds a value that spells no number (no entry does for e = 0).
TotalsCosts(e, k) ==
    LET rows == <<DictUpdate(cost_data(StrV(1), StrV(1), E100),
                             [id |-> StrV(10), created_at |-> StrV(0)]),
                  DictUpdate(cost_data(StrV(1), StrV(2), EB),
                             [id |-> StrV(11), created_at |-> StrV(0)]),
                  DictUpdate(cost_data(StrV(2), StrV(1), E150),
                             [id |-> StrV(12), created_at |-> StrV(0)])>>
    IN  [i \in DOMAIN rows |->
            IF i = e THEN [rows[i] EXCEPT ![k] = NonNumeric] ELSE rows[i]]

InitTotals ==
    /\ backend \in {"demo", "sheets"}
    /\ customers = SeedCustomers
    /\ vendors = SeedVendors
    /\ jobs = SeedJobs
    /\ \E e \in 0..3, k \in ActualColumns : weekly_costs = TotalsCosts(e, k)
    /\ hdr = [Customers |-> TRUE, Vendors |-> TRUE, Jobs |-> TRUE, WeeklyCosts |-> TRUE]
    /\ clock = 1
    /\ nops = 0
    /\ last = [op |-> "init", arg |-> <<>>]
    /\ view = <<>>

\* The job ids get_job_cost_totals is asked about: those of the calls, and one no job has.
AskedJobs == JobIdArgs \cup {StrV(9), IntV(2)}

\* get_job_cost_totals(job_id) is called
GetJobCostTotals(job_id) ==
    /\ view' = [page |-> "get_job_cost_totals", job_id |-> job_id] @@
                get_job_cost_totals_call(job_id)
    /\ last' = [op |-> "get_job_cost_totals", arg |-> job_id, before |-> Before]
    /\ UNCHANGED <<backend, customers, vendors, jobs, weekly_costs, hdr, clock, nops>>

NextTotals == \E job_id \in AskedJobs : GetJobCostTotals(job_id)

SpecTotals == InitTotals /\ [][NextTotals]_vars

----------------------------------------------------------------------------
(* The Customers and Vendors pages, and the Customer Summary report *)

get_all_vendors ==
    IF backend = "demo" THEN demo_get_all_customers(vendors)
    ELSE sheets_get_all_customers(hdr.Vendors, vendors)

get_customer_by_id(id) ==
    IF backend = "demo" THEN demo_get_customer_by_id(customers, id)
    ELSE sheets_get_customer_by_id(hdr.Customers, customers, id)

get_vendor_by_id(id) ==
    IF backend = "demo" THEN demo_get_customer_by_id(vendors, id)
    ELSE sheets_get_customer_by_id(hdr.Vendors, vendors, id)

\* A lower() that leaves the capitals
LowerKeepCase(name) == name

\* str.lower() of the names in use
Lower(name) ==
    CASE name = "Acme" -> "acme"
      [] name = "Promethean Construction" -> "promethean construction"
      [] name = "Skanska USA" -> "skanska usa"
      [] name = "ABC Materials Supply" -> "abc materials supply"
      [] name = "Zed Rentals" -> "zed rentals"
      [] OTHER -> name

\* existing = [str(c.get("name", "")).lower() for c in customers]
ExistingNames(listed) == {Lower(listed[i].name) : i \in Indices(listed)}

\* The ids of the records a page lists, each with its Edit and Delete button
ListedIds(listed) == {listed[i].id : i \in Indices(listed)}

\* 4_Customers.py, "Add New Customer" submitted with a name
AddCustomer(name) ==
    /\ nops < MaxOps
    /\ LET data == [name |-> name, notes |-> "new"]
           ok == name # "" /\ Lower(name) \notin ExistingNames(get_all_customers)
           r == IF ~ok THEN [hdr |-> hdr.Customers, rows |-> customers]
                ELSE IF backend = "demo"
                THEN [hdr |-> hdr.Customers,
                      rows |-> demo_create_customer(customers, data, clock)]
                ELSE sheets_create_customer(hdr.Customers, customers, data, clock,
                                            CustomerColumns)
       IN  /\ customers' = r.rows
           /\ hdr' = [hdr EXCEPT !.Customers = r.hdr]
    /\ last' = [op |-> "add_customer", arg |-> name, raised |-> FALSE,
                before |-> Before]
    /\ nops' = nops + 1
    /\ view' = <<>>
    /\ UNCHANGED <<backend, vendors, jobs, weekly_costs, clock>>

\* 4_Customers.py, the edit form of a listed customer saved with a name
EditCustomer(id, name) ==
    /\ nops < MaxOps
    /\ id \in ListedIds(get_all_customers)
    /\ get_customer_by_id(id) # NoneV
    /\ LET data == [name |-> name, notes |-> get_customer_by_id(id).notes]
           r == IF backend = "demo"
                THEN [raised |-> FALSE, hdr |-> hdr.Customers,
                      rows |-> demo_update_customer(customers, id, data)]
                ELSE sheets_update_customer(hdr.Customers, customers, id, data)
       IN  /\ customers' = r.rows
           /\ hdr' = [hdr EXCEPT !.Customers = r.hdr]
           /\ last' = [op |-> "edit_customer", arg |-> <<id, name>>,
                       raised |-> r.raised, before |-> Before]
    /\ nops' = nops + 1
    /\ view' = <<>>
    /\ UNCHANGED <<backend, vendors, jobs, weekly_costs, clock>>

\* A delete that takes the customer's jobs along
delete_customer_cascade(id) ==
    [raised |-> FALSE, hdr |-> hdr.Customers,
     rows |-> demo_delete_customer(customers, id),
     jobs |-> SelectIdx(jobs, LAMBDA j : str(j.customer_id) # str(id)),
     costs |-> weekly_costs]

\* delete_customer(customer_id) on the store: the customers it leaves, and
\* the jobs and weekly costs, which it neither reads nor writes
delete_customer(id) ==
    (IF backend = "demo"
     THEN [raised |-> FALSE, hdr |-> hdr.Customers,
           rows |-> demo_delete_customer(customers, id)]
     ELSE sheets_delete_customer(hdr.Customers, customers, id))
    @@ [jobs |-> jobs, costs |-> weekly_costs]

\* 4_Customers.py, the Delete button of a listed customer
DeleteCustomer(id) ==
    /\ nops < MaxOps
    /\ id \in ListedIds(get_all_customers)
    /\ LET r == delete_customer(id)
       IN  /\ customers' = r.rows
           /\ hdr' = [hdr EXCEPT !.Customers = r.hdr]
           /\ jobs' = r.jobs
           /\ weekly_costs' = r.costs
           /\ last' = [op |-> "delete_customer", arg |-> id, raised |-> r.raised,
                       before |-> Before]
    /\ nops' = nops + 1
    /\ view' = <<>>
    /\ UNCHANGED <<backend, vendors, clock>>

\* 5_Vendors.py, "Add New Vendor" submitted with a name
AddVendor(name) ==
    /\ nops < MaxOps
    /\ LET data == [name |-> name, vendor_type |-> "supplier", notes |-> "new"]
           ok == name # "" /\ Lower(name) \notin ExistingNames(get_all_vendors)
           r == IF ~ok THEN [hdr |-> hdr.Vendors, rows |-> vendors]
                ELSE IF backend = "demo"
                THEN [hdr |-> hdr.Vendors,
                      rows |-> demo_create_vendor(vendors, data, clock)]
                ELSE sheets_create_customer(hdr.Vendors, vendors, data, clock,
                                            VendorColumns)
       IN  /\ vendors' = r.rows
           /\ hdr' = [hdr EXCEPT !.Vendors = r.hdr]
    /\ last' = [op |-> "add_vendor", arg |-> name, raised |-> FALSE,
                before |-> Before]
    /\ nops' = nops + 1
    /\ view' = <<>>
    /\ UNCHANGED <<backend, customers, jobs, weekly_costs, clock>>

\* 5_Vendors.py, the edit form of a listed vendor saved with a name
EditVendor(id, name) ==
    /\ nops < MaxOps
    /\ id \in ListedIds(get_all_vendors)
    /\ get_vendor_by_id(id) # NoneV
    /\ LET vendor == get_vendor_by_id(id)
           data == [name |-> name, vendor_type |-> vendor.vendor_type,
                    notes |-> vendor.notes]
           r == IF backend = "demo"
                THEN [raised |-> FALSE, hdr |-> hdr.Vendors,
                      rows |-> demo_update_vendor(vendors, id, data)]
                ELSE sheets_update_customer(hdr.Vendors, vendors, id, data)
       IN  /\ vendors' = r.rows
           /\ hdr' = [hdr EXCEPT !.Vendors = r.hdr]
           /\ last' = [op |-> "edit_vendor", arg |-> <<id, name>>,
                       raised |-> r.raised, before |-> Before]
    /\ nops' = nops + 1
    /\ view' = <<>>
    /\ UNCHANGED <<backend, customers, jobs, weekly_costs, clock>>

\* 5_Vendors.py, the Delete button of a listed vendor
DeleteVendor(id) ==
    /\ nops < MaxOps
    /\ id \in ListedIds(get_all_vendors)
    /\ LET r == IF backend = "demo"
                THEN [raised |-> FALSE, hdr |-> hdr.Vendors,
                      rows |-> demo_delete_vendor(vendors, id)]
                ELSE sheets_delete_customer(hdr.Vendors, vendors, id)
       IN  /\ vendors' = r.rows
           /\ hdr' = [hdr EXCEPT !.Vendors = r.hdr]
           /\ last' = [op |-> "delete_vendor", arg |-> id, raised |-> r.raised,
                       before |-> Before]
    /\ nops' = nops + 1
    /\ view' = <<>>
    /\ UNCHANGED <<backend, customers, jobs, weekly_costs, clock>>

\* Every job taken as the customer's
customer_jobs_all(customer, js) == Indices(js)

\* customer_jobs = [j for j in jobs if str(j.get("customer_id", "")) == str(customer["id"])],
\* as positions of the jobs list
customer_jobs(customer, js) ==
    {i \in Indices(js) : str(js[i].customer_id) = str(customer.id)}

\* 6_Reports.py, a row of the Customer Summary
CustomerRow(customer, js) ==
    LET mine == customer_jobs(customer, js)
        Sum[S \in SUBSET mine] ==
            IF S = {} THEN [revenue |-> 0, cost |-> 0]
            ELSE LET i == CHOOSE x \in S : TRUE
                 IN  [revenue |-> Sum[S \ {i}].revenue
                                  + js[i].contract_amount + js[i].approved_change_orders,
                      cost |-> Sum[S \ {i}].cost + get_job_cost_totals(js[i].id).total]
        revenue == Sum[mine].revenue
        cost == Sum[mine].cost
    IN  [customer |-> customer.name, id |-> customer.id, customer_jobs |-> mine,
         jobs |-> Cardinality(mine),
         active_jobs |-> Cardinality({i \in mine : js[i].status = "active"}),
         revenue |-> revenue, cost |-> cost, profit |-> revenue - cost,
         margin |-> IF revenue > 0 THEN Pct(revenue - cost, revenue) ELSE ZeroPct]

\* sort_values("Total Revenue", ascending=False)
ByRevenue(rows) ==
    LET Ins(t, x) ==
            LET n == Cardinality({j \in Indices(t) : t[j].revenue >= x.revenue})
            IN  SubSeq(t, 1, n) \o <<x>> \o SubSeq(t, n + 1, Len(t))
        F[i \in 0..Len(rows)] == IF i = 0 THEN <<>> ELSE Ins(F[i - 1], rows[i])
    IN  F[Len(rows)]

\* Reports, "Customer Summary": without a job the page stops before the
\* report; without a listed customer the frame has no column "Total Revenue"
\* and sort_values raises KeyError.
CustomerSummaryReport ==
    /\ get_all_jobs # <<>>
    /\ LET listed == get_all_customers
           data == [i \in DOMAIN listed |-> CustomerRow(listed[i], get_all_jobs)]
       IN  view' = [page |-> "CustomerSummary", rows |-> <<>>,
                    raised |-> (listed = <<>>),
                    customer_data |-> IF listed = <<>> THEN <<>> ELSE ByRevenue(data)]
    /\ jobs' = JobsAfterLoad
    /\ PageDone("CustomerSummary")
    /\ UNCHANGED <<backend, customers, vendors, weekly_costs, hdr, clock, nops>>

\* The names the forms are submitted with
CustomerNames == {"", "Acme", "promethean construction"}
CustomerEditNames == {"Skanska USA"}
VendorNames == {"", "abc materials supply"}
VendorEditNames == {"Zed Rentals"}

\* Jobs of customer 1 with and without revenue, a job of a customer no record
\* has, and a job without customer; customer 2 has no job.
CustomerJobs ==
    <<Job(1, "550", "Linden Grove Apartments", 1, 1000, 0, 500, "active",
          <<0, 1000, 0, 0, 0, 0>>),
      Job(2, "545", "Riverside Office Complex", 1, 0, 0, 0, "completed",
          <<0, 0, 0, 0, 0, 0>>),
      Job(3, "548", "Harbor View Tower", 9, 700, 0, 0, "active",
          <<0, 0, 0, 0, 0, 0>>),
      [Job(4, "552", "Greenpoint Retail Center", 1, 300, 0, 0, "active",
           <<0, 0, 0, 0, 0, 0>>) EXCEPT !.customer_id = Blank]>>

SheetVendor(vendor) == DictUpdate(vendor, [created_at |-> StrV(0)])

InitCustomers ==
    /\ backend \in {"demo", "sheets"}
    /\ customers = SeedCustomers
    /\ vendors = IF backend = "demo" THEN SeedVendors
                 ELSE [i \in DOMAIN SeedVendors |-> SheetVendor(SeedVendors[i])]
    /\ jobs = IF backend = "demo" THEN CustomerJobs
              ELSE [i \in DOMAIN CustomerJobs |-> SheetJob(CustomerJobs[i])]
    /\ weekly_costs = PageCosts(900)
    /\ hdr = [Customers |-> TRUE, Vendors |-> TRUE, Jobs |-> TRUE, WeeklyCosts |-> TRUE]
    /\ clock = 1
    /\ nops = 0
    /\ last = [op |-> "init", arg |-> <<>>]
    /\ view = <<>>

\* The ids a button of a page can carry
ButtonIds == {[t |-> ty, v |-> n] : ty \in {"str", "int"}, n \in {1, 2, 1001, 1002}}

NextCustomers ==
    \/ \E name \in CustomerNames : AddCustomer(name)
    \/ \E id \in ButtonIds, name \in CustomerEditNames : EditCustomer(id, name)
    \/ \E id \in ButtonIds : DeleteCustomer(id)
    \/ \E name \in VendorNames : AddVendor(name)
    \/ \E id \in ButtonIds, name \in VendorEditNames : EditVendor(id, name)
    \/ \E id \in ButtonIds : DeleteVendor(id)
    \/ Tick
    \/ CustomerSummaryReport
    \/ JobsPage

SpecCustomers == InitCustomers /\ [][NextCustomers]_vars

----------------------------------------------------------------------------
(* The New Job form *)

\* The header of the Jobs sheet, as far as the model's jobs have the columns
JobColumns ==
    {"id", "job_number", "job_name", "customer_id", "contract_amount",
     "pending_change_orders", "approved_change_orders", "status",
     "budget_insurance", "budget_labor", "budget_stamps", "budget_material",
     "budget_subs_bond", "budget_equipment", "created_at", "updated_at"}

\* demo_data.create_job
demo_create_job(js, data, now) ==
    Append(js, DictUpdate(data, [id |-> generate_id(now),
                                 created_at |-> demo_created_at(now)]))

\* google_sheets.create_job
sheets_create_job(h, rows, data, now) ==
    append_row(h, rows,
               DictUpdate(data, [id |-> generate_id(now),
                                 created_at |-> sheets_created_at(now),
                                 updated_at |-> sheets_created_at(now)]),
               JobColumns)

\* The form's job_data: no customer selected, status "estimate", amounts 0
job_data(job_number, job_name) ==
    [job_number |-> job_number, job_name |-> job_name, customer_id |-> Blank,
     contract_amount |-> 0, pending_change_orders |-> 0,
     approved_change_orders |-> 0, status |-> "estimate",
     budget_insurance |-> 0, budget_labor |-> 0, budget_stamps |-> 0,
     budget_material |-> 0, budget_subs_bond |-> 0, budget_equipment |-> 0]

\* existing_numbers = [str(j.get("job_number")) for j in jobs]
existing_numbers == {get_all_jobs[i].job_number : i \in Indices(get_all_jobs)}

\* 2_Jobs.py, "Create New Job" submitted: the page has loaded the jobs, then
\* the form checks its fields and calls create_job.
NewJob(job_number, job_name) ==
    /\ nops < MaxOps
    /\ LET loaded == JobsAfterLoad
           ok == /\ job_number # "" /\ job_name # ""
                 /\ job_number \notin existing_numbers
           data == job_data(job_number, job_name)
           r == IF ~ok THEN [hdr |-> hdr.Jobs, rows |-> loaded]
                ELSE IF backend = "demo"
                THEN [hdr |-> hdr.Jobs, rows |-> demo_create_job(loaded, data, clock)]
                ELSE sheets_create_job(hdr.Jobs, loaded, data, clock)
       IN  /\ jobs' = r.rows
           /\ hdr' = [hdr EXCEPT !.Jobs = r.hdr]
           /\ last' = [op |-> "new_job", arg |-> <<job_number, job_name>>,
                       raised |-> FALSE, before |-> [Before EXCEPT !.jobs = loaded]]
    /\ nops' = nops + 1
    /\ view' = <<>>
    /\ UNCHANGED <<backend, customers, vendors, weekly_costs, clock>>

\* The values the New Job form is submitted with
JobNumbers == {"", "550", "0550"}
JobNames == {"", "Hudson Yards"}

NextJobs ==
    \/ \E job_number \in JobNumbers, job_name \in JobNames :
          NewJob(job_number, job_name)
    \/ \E i \in 1..3, pending \in PendingValues : EditJob(i, pending)
    \/ \E job_id \in JobIdArgs : DeleteJob(job_id)
    \/ Tick

SpecJobs == Init /\ [][NextJobs]_vars

----------------------------------------------------------------------------
(* The read operations as calls *)

\* demo_data.get_all_weekly_costs: the dict jobs is keyed by j["id"] as stored
\* and looked up by str(job_id); the key "jobs" is set on the stored entries.
demo_get_all_weekly_costs(costs, js) ==
    [i \in DOMAIN costs |->
        LET hit == {j \in Indices(js) : js[j].id = str(costs[i].job_id)}
        IN  DictUpdate(costs[i],
                [jobs |-> IF hit # {}
                          THEN [job_number |-> js[MaxOf(hit)].job_number,
                                job_name |-> js[MaxOf(hit)].job_name]
                          ELSE NoneV])]

\* The store after get_all_weekly_costs(): the sheets backend only reads
CostsAfterLoad ==
    IF backend = "demo" THEN demo_get_all_weekly_costs(weekly_costs, jobs)
    ELSE weekly_costs

\* get_job_by_id(job_id): the first of get_all_jobs() with the id, or None
get_job_by_id(job_id) ==
    LET hit == {i \in Indices(get_all_jobs) : str(get_all_jobs[i].id) = str(job_id)}
    IN  IF hit # {} THEN get_all_jobs[MinOf(hit)] ELSE NoneV

\* A read is called: what it returns, and the store it leaves
ReadCall(op, arg, result, js, costs) ==
    /\ view' = [page |-> op, rows |-> <<>>, result |-> result]
    /\ last' = [op |-> op, arg |-> arg, before |-> Before]
    /\ jobs' = js
    /\ weekly_costs' = costs
    /\ UNCHANGED <<backend, customers, vendors, hdr, clock, nops>>

GetAllJobs == ReadCall("get_all_jobs", <<>>, get_all_jobs, JobsAfterLoad, weekly_costs)

GetJobById(job_id) ==
    ReadCall("get_job_by_id", job_id, get_job_by_id(job_id), JobsAfterLoad, weekly_costs)

GetAllWeeklyCosts ==
    ReadCall("get_all_weekly_costs", <<>>, Len(CostsAfterLoad), jobs, CostsAfterLoad)

GetWeeklyCostsByJob(job_id) ==
    ReadCall("get_weekly_costs_by_job", job_id, get_weekly_costs_by_job(job_id),
             jobs, weekly_costs)

NextReads ==
    \/ GetAllJobs
    \/ \E job_id \in AskedJobs : GetJobById(job_id)
    \/ GetAllWeeklyCosts
    \/ \E job_id \in AskedJobs : GetWeeklyCostsByJob(job_id)
    \/ \E job_id \in AskedJobs : GetJobCostTotals(job_id)

SpecReads == InitPages /\ [][NextReads]_vars

----------------------------------------------------------------------------
(* One session on the Jobs and Cost Entry pages *)

\* 2_Jobs.py, button "Delete" of the i-th listed job: the page has loaded the
\* jobs, then delete_job(job["id"]); an exception ends the run.
DeleteListedJob(i) ==
    /\ nops < MaxOps
    /\ i \in Indices(get_all_jobs)
    /\ LET loaded == JobsAfterLoad
           job_id == get_all_jobs[i].id
           r == IF backend = "demo"
                THEN LET d == demo_delete_job(loaded, weekly_costs, job_id)
                     IN  [raised |-> FALSE,
                          jobs |-> [hdr |-> hdr.Jobs, rows |-> d.jobs],
                          costs |-> [hdr |-> hdr.WeeklyCosts, rows |-> d.costs]]
                ELSE sheets_delete_job(hdr.Jobs, loaded, hdr.WeeklyCosts, weekly_costs, job_id)
       IN  /\ jobs' = r.jobs.rows
           /\ weekly_costs' = r.costs.rows
           /\ hdr' = [hdr EXCEPT !.Jobs = r.jobs.hdr, !.WeeklyCosts = r.costs.hdr]
           /\ last' = [op |-> "delete_listed_job", arg |-> job_id, raised |-> r.raised,
                       before |-> [Before EXCEPT !.jobs = loaded]]
    /\ nops' = nops + 1
    /\ view' = <<>>
    /\ UNCHANGED <<backend, customers, vendors, clock>>

\* 3_Cost_Entry.py, "Save Week Entry": the page has loaded all_jobs, the job
\* is the i-th of them, get_job_by_id finds it, and the form's cost_data goes
\* to upsert_weekly_cost.
SaveWeekEntry(i, week_ending, f) ==
    /\ nops < MaxOps
    /\ i \in Indices(get_all_jobs)
    /\ LET selected_job_id == get_all_jobs[i].id
           shown == selected_job_id # Blank /\ get_job_by_id(selected_job_id) # NoneV
           data == cost_data(selected_job_id, week_ending, f)
           r == IF ~shown THEN [hdr |-> hdr.WeeklyCosts, rows |-> weekly_costs]
                ELSE IF backend = "demo"
                THEN [hdr |-> hdr.WeeklyCosts,
                      rows |-> demo_upsert_weekly_cost(weekly_costs, data, clock)]
                ELSE sheets_upsert_weekly_cost(hdr.WeeklyCosts, weekly_costs, data, clock)
       IN  /\ weekly_costs' = r.rows
           /\ hdr' = [hdr EXCEPT !.WeeklyCosts = r.hdr]
           /\ last' = [op |-> "save_week_entry", arg |-> data, raised |-> FALSE,
                       before |-> [Before EXCEPT !.jobs = JobsAfterLoad]]
    /\ jobs' = JobsAfterLoad
    /\ nops' = nops + 1
    /\ view' = <<>>
    /\ UNCHANGED <<backend, customers, vendors, clock>>

NextSession ==
    \/ \E job_number \in JobNumbers, job_name \in JobNames :
          NewJob(job_number, job_name)
    \/ \E i \in 1..3 : DeleteListedJob(i)
    \/ \E i \in 1..3, week_ending \in WeekArgs, f \in FormValues :
          SaveWeekEntry(i, week_ending, f)
    \/ Tick

SpecSession == Init /\ [][NextSession]_vars

----------------------------------------------------------------------------
(* Two sessions in google_sheets.upsert_weekly_cost for one (job, week)     *)

\* Every call of the Sheets API is a step of its own: get_all_records,
\* row_values(1), append_row, clear, update.  view holds, for each session,
\* where it is in upsert_weekly_cost and its local df, data and headers.
Sessions == {1, 2}

InitRace ==
    /\ backend = "sheets"
    /\ customers = SeedCustomers
    /\ vendors = SeedVendors
    /\ jobs = SeedJobs
    /\ weekly_costs \in {SeedCosts, <<>>}
    /\ hdr = [Customers |-> TRUE, Vendors |-> TRUE, Jobs |-> TRUE, WeeklyCosts |-> TRUE]
    /\ clock = 1
    /\ nops = 0
    /\ last = [op |-> "init", arg |-> <<>>]
    /\ \E week_ending \in WeekArgs, f \in [Sessions -> FormValues] :
          view = [s \in Sessions |->
                     [pc |-> "start", df |-> <<>>, headers |-> FALSE,
                      data |-> cost_data(StrV(1), week_ending, f[s])]]

Step(s, pc, df, headers, data) ==
    /\ view' = [view EXCEPT ![s] = [pc |-> pc, df |-> df, headers |-> headers,
                                    data |-> data]]
    /\ last' = [op |-> pc, arg |-> s]

\* df = sheet_to_dataframe(ws)
ReadSheet(s) ==
    /\ view[s].pc = "start"
    /\ Step(s, "read", sheet_to_dataframe(hdr.WeeklyCosts, weekly_costs),
            view[s].headers, view[s].data)
    /\ UNCHANGED <<backend, customers, vendors, jobs, weekly_costs, hdr, clock, nops>>

\* if df.empty / mask.any(): the rows of the key take the data's columns in
\* the local frame, or the data gets its id and created_at
ExistenceCheck(s) ==
    /\ view[s].pc = "read"
    /\ LET df == view[s].df
           data == view[s].data
           mask == {i \in Indices(df) : KeyMatch(df[i], data.job_id, data.week_ending)}
       IN  IF df # <<>> /\ mask # {}
           THEN Step(s, "update",
                     [i \in DOMAIN df |-> IF i \in mask THEN SheetsMerge(df[i], data)
                                          ELSE df[i]],
                     view[s].headers, data)
           ELSE Step(s, "insert", df, view[s].headers,
                     DictUpdate(data, [id |-> generate_id(clock),
                                       created_at |-> sheets_created_at(clock)]))
    /\ UNCHANGED <<backend, customers, vendors, jobs, weekly_costs, hdr, clock, nops>>

\* headers = ws.row_values(1)
RowValues(s) ==
    /\ view[s].pc = "insert"
    /\ Step(s, "headers", view[s].df, hdr.WeeklyCosts, view[s].data)
    /\ UNCHANGED <<backend, customers, vendors, jobs, weekly_costs, hdr, clock, nops>>

\* ws.append_row(row): the row of the headers read before goes below the
\* sheet's last row (to row 1 of a sheet that is blank by now); [] adds nothing
AppendRow(s) ==
    /\ view[s].pc = "headers"
    /\ weekly_costs' = append_row(view[s].headers, weekly_costs, view[s].data,
                                  WeeklyCostColumns).rows
    /\ Step(s, "done", view[s].df, view[s].headers, view[s].data)
    /\ UNCHANGED <<backend, customers, vendors, jobs, hdr, clock, nops>>

\* dataframe_to_sheet: worksheet.clear()
Clear(s) ==
    /\ view[s].pc = "update"
    /\ weekly_costs' = <<>>
    /\ hdr' = [hdr EXCEPT !.WeeklyCosts = FALSE]
    /\ Step(s, "cleared", view[s].df, view[s].headers, view[s].data)
    /\ UNCHANGED <<backend, customers, vendors, jobs, clock, nops>>

\* dataframe_to_sheet: worksheet.update(columns and values), from cell A1: the
\* frame (it has rows) takes the place of the sheet's rows 1 .. 1 + len(df);
\* rows below them stay
Update(s) ==
    /\ view[s].pc = "cleared"
    /\ LET df == view[s].df
           below == Len(df) + (IF hdr.WeeklyCosts THEN 1 ELSE 2)
       IN  weekly_costs' = df \o SubSeq(weekly_costs, below, Len(weekly_costs))
    /\ hdr' = [hdr EXCEPT !.WeeklyCosts = TRUE]
    /\ Step(s, "done", view[s].df, view[s].headers, view[s].data)
    /\ UNCHANGED <<backend, customers, vendors, jobs, clock, nops>>

NextRace ==
    \/ \E s \in Sessions : ReadSheet(s)
    \/ \E s \in Sessions : ExistenceCheck(s)
    \/ \E s \in Sessions : RowValues(s)
    \/ \E s \in Sessions : AppendRow(s)
    \/ \E s \in Sessions : Clear(s)
    \/ \E s \in Sessions : Update(s)
    \/ Tick

SpecRace == InitRace /\ [][NextRace]_vars

----------------------------------------------------------------------------
(* Week endings: utils.get_week_ending_date, get_last_n_week_endings *)

\* The days the clock is read on, counted from a Monday (day 0), and the
\* longest list of weeks asked for (the Cost Entry page asks for 12)
FirstDay == 21
Days == 14
MaxWeeks == 12

\* datetime.now().date() and datetime.now().hour of a clock reading
today(now) == now \div TicksPerDay
hour(now) == ((now % TicksPerDay) * 24) \div TicksPerDay

\* date.weekday(): Monday is 0, Saturday 5, Sunday 6
weekday(date) == date % 7

\* utils.get_week_ending_date
get_week_ending_date(now) ==
    LET days_until_saturday == (5 - weekday(today(now))) % 7
    IN  IF days_until_saturday = 0 /\ hour(now) < 12 THEN today(now)
        ELSE today(now) + days_until_saturday

\* A list of the last n days
get_last_n_days(now, n) ==
    [i \in 1..n |-> get_week_ending_date(now) - (i - 1)]

\* utils.get_last_n_week_endings: current - timedelta(weeks=i) for i in range(n)
get_last_n_week_endings(now, n) ==
    [i \in 1..n |-> get_week_ending_date(now) - 7 * (i - 1)]

InitWeeks ==
    /\ backend \in {"demo", "sheets"}
    /\ customers = SeedCustomers
    /\ vendors = SeedVendors
    /\ jobs = SeedJobs
    /\ weekly_costs = SeedCosts
    /\ hdr = [Customers |-> TRUE, Vendors |-> TRUE, Jobs |-> TRUE, WeeklyCosts |-> TRUE]
    /\ clock \in (FirstDay * TicksPerDay)..((FirstDay + Days) * TicksPerDay - 1)
    /\ nops = 0
    /\ last = [op |-> "init", arg |-> <<>>]
    /\ view = <<>>

\* A call of get_week_ending_date()
WeekEndingDate ==
    /\ view' = [page |-> "get_week_ending_date", rows |-> <<>>,
                date |-> get_week_ending_date(clock)]
    /\ last' = [op |-> "get_week_ending_date", arg |-> <<>>]
    /\ UNCHANGED <<backend, customers, vendors, jobs, weekly_costs, hdr, clock, nops>>

\* A call of get_last_n_week_endings(n); the Cost Entry page's week_options
LastNWeekEndings(n) ==
    /\ view' = [page |-> "get_last_n_week_endings", rows |-> <<>>,
                weeks |-> get_last_n_week_endings(clock, n)]
    /\ last' = [op |-> "get_last_n_week_endings", arg |-> n]
    /\ UNCHANGED <<backend, customers, vendors, jobs, weekly_costs, hdr, clock, nops>>

NextWeeks ==
    \/ WeekEndingDate
    \/ \E n \in 1..MaxWeeks : LastNWeekEndings(n)

SpecWeeks == InitWeeks /\ [][NextWeeks]_vars

----------------------------------------------------------------------------
(* Vocabulary of the properties *)

\* The records a sheet or list holds, as the store's reads return them.
Content(b, h, rows) == IF b = "demo" THEN rows ELSE sheet_to_dataframe(h, rows)

StoredCosts == Content(backend, hdr.WeeklyCosts, weekly_costs)
CostsBefore == Content(backend, last.before.hdr.WeeklyCosts, last.before.costs)
StoredJobs == Content(backend, hdr.Jobs, jobs)

\* The places of the entries of a (job, week) key, and of a job
AtKey(costs, job_id, week_ending) ==
    {i \in Indices(costs) : /\ str(costs[i].job_id) = str(job_id)
                            /\ str(costs[i].week_ending) = str(week_ending)}

OfJob(costs, job_id) == {i \in Indices(costs) : str(costs[i].job_id) = str(job_id)}

RECURSIVE SumAt(_, _, _)
SumAt(costs, S, k) ==
    IF S = {} THEN 0
    ELSE LET i == CHOOSE x \in S : TRUE
         IN  costs[i][k] + SumAt(costs, S \ {i}, k)

CostKeys ==
    {"insurance_actual", "labor_actual", "stamps_actual", "material_actual",
     "subs_bond_actual", "equipment_actual"}

FormKeys == CostKeys \cup {"man_days_actual", "notes"}

Upserted == last.op = "upsert_weekly_cost"
Deleted == last.op = "delete_job" /\ ~last.raised

----------------------------------------------------------------------------
(* C1: after any sequence of upsert_weekly_cost and delete_job calls the    *)
(* store holds at most one weekly cost entry for every                     *)
(* (str(job_id), str(week_ending)) pair.                                   *)
C1_OneEntryPerKey ==
    \A i, j \in Indices(weekly_costs) :
        (/\ str(weekly_costs[i].job_id) = str(weekly_costs[j].job_id)
         /\ str(weekly_costs[i].week_ending) = str(weekly_costs[j].week_ending))
        => i = j

\* An upsert met an entry of its key whose job_id is held in the other type,
\* and the store holds entries of several keys.
C1_Witness ==
    /\ Upserted
    /\ \E i \in AtKey(last.before.costs, last.arg.job_id, last.arg.week_ending) :
           last.before.costs[i].job_id # last.arg.job_id
    /\ Len(weekly_costs) >= 2

(* C2: an upsert whose key matches a stored entry leaves exactly one entry  *)
(* for the key, with the incoming cost fields, man_days_actual and notes,   *)
(* and with the id and created_at the entry had before the call.            *)
C2_UpsertOverwrites ==
    (Upserted /\ AtKey(CostsBefore, last.arg.job_id, last.arg.week_ending) # {})
    => LET d == last.arg
           old == AtKey(CostsBefore, d.job_id, d.week_ending)
           new == AtKey(StoredCosts, d.job_id, d.week_ending)
       IN  /\ Cardinality(new) = 1
           /\ \A i \in new :
                  /\ \A k \in FormKeys : StoredCosts[i][k] = d[k]
                  /\ \A o \in old :
                         /\ str(StoredCosts[i].id) = str(CostsBefore[o].id)
                         /\ StoredCosts[i].created_at = CostsBefore[o].created_at

\* An upsert changed the amounts of an entry that was created at an earlier
\* clock reading.
C2_Witness ==
    /\ Upserted
    /\ \E o \in AtKey(CostsBefore, last.arg.job_id, last.arg.week_ending) :
           /\ CostsBefore[o].labor_actual # last.arg.labor_actual
           /\ CostsBefore[o].id # generate_id(clock)
           /\ CostsBefore[o].created_at # StrV(clock)

(* C3: two upserts in a row with the same key and the same values leave     *)
(* exactly one entry for the key, its fields equal to the input, and the    *)
(* store after the second call equals the store after the first.            *)
C3_UpsertIdempotent ==
    (Upserted /\ last.prev.op = "upsert_weekly_cost" /\ last.prev.arg = last.arg)
    => LET d == last.arg
           new == AtKey(StoredCosts, d.job_id, d.week_ending)
       IN  /\ Cardinality(new) = 1
           /\ \A i \in new : \A k \in FormKeys : StoredCosts[i][k] = d[k]
           /\ StoredCosts = CostsBefore

\* The second of two equal upserts has run.
C3_Witness ==
    /\ Upserted /\ last.prev.op = "upsert_weekly_cost" /\ last.prev.arg = last.arg
    /\ AtKey(StoredCosts, last.arg.job_id, last.arg.week_ending) # {}

(* C4: for a job without weekly cost entries (a job id no job has           *)
(* included) get_job_cost_totals returns 0 in every field.                  *)
C4_NoEntriesZeroTotals ==
    \A job_id \in AskedJobs :
        OfJob(StoredCosts, job_id) = {} => get_job_cost_totals(job_id) = ZeroTotals

\* After an upsert a stored job has no entries while another job has some,
\* and an asked id is the id of no job.
C4_Witness ==
    /\ Upserted
    /\ \E j \in Indices(StoredJobs) : OfJob(StoredCosts, StoredJobs[j].id) = {}
    /\ StoredCosts # <<>>
    /\ \E job_id \in AskedJobs : \A j \in Indices(StoredJobs) :
           str(StoredJobs[j].id) # str(job_id)

(* C5: get_job_cost_totals returns, per category, the sum of the *_actual   *)
(* field over the job's entries, and total is the sum of the six            *)
(* categories; man_days is not part of total.                               *)
C5_TotalsAreSums ==
    \A job_id \in AskedJobs :
        LET t == get_job_cost_totals(job_id)
            S == OfJob(StoredCosts, job_id)
        IN  /\ t.insurance = SumAt(StoredCosts, S, "insurance_actual")
            /\ t.labor = SumAt(StoredCosts, S, "labor_actual")
            /\ t.stamps = SumAt(StoredCosts, S, "stamps_actual")
            /\ t.material = SumAt(StoredCosts, S, "material_actual")
            /\ t.subs_bond = SumAt(StoredCosts, S, "subs_bond_actual")
            /\ t.equipment = SumAt(StoredCosts, S, "equipment_actual")
            /\ t.man_days = SumAt(StoredCosts, S, "man_days_actual")
            /\ t.total = t.insurance + t.labor + t.stamps + t.material
                         + t.subs_bond + t.equipment

\* A job has two entries with man-days, and its totals are asked by an id of
\* the other type.
C5_Witness ==
    \E job_id \in AskedJobs :
        /\ Cardinality(OfJob(StoredCosts, job_id)) >= 2
        /\ get_job_cost_totals(job_id).man_days > 0
        /\ \E i \in OfJob(StoredCosts, job_id) : StoredCosts[i].job_id # job_id

(* C6: totals are never stale.  After every call get_job_cost_totals(J) is  *)
(* the sum over the entries now stored for J: an upsert that overwrites a   *)
(* week moves each total by exactly new - old (labor 100 -> 150: +50), and  *)
(* delete_job(J) leaves J's totals 0 and the other jobs' totals as they     *)
(* were.                                                                    *)
TotalsBefore(job_id) ==
    job_cost_totals(weekly_costs_by_job(backend, last.before.hdr.WeeklyCosts,
                                        last.before.costs, job_id))

Category ==
    [insurance |-> "insurance_actual", labor |-> "labor_actual",
     stamps |-> "stamps_actual", material |-> "material_actual",
     subs_bond |-> "subs_bond_actual", equipment |-> "equipment_actual",
     man_days |-> "man_days_actual"]

C6_TotalsFollowWrites ==
    /\ (Upserted /\ AtKey(CostsBefore, last.arg.job_id, last.arg.week_ending) # {})
       => LET d == last.arg
              t == get_job_cost_totals(d.job_id)
              b == TotalsBefore(d.job_id)
          IN  \A o \in AtKey(CostsBefore, d.job_id, d.week_ending) :
                  /\ \A c \in DOMAIN Category :
                         t[c] = b[c] - CostsBefore[o][Category[c]] + d[Category[c]]
                  /\ t.total = b.total - CostsBefore[o].insurance_actual
                               - CostsBefore[o].labor_actual - CostsBefore[o].stamps_actual
                               - CostsBefore[o].material_actual
                               - CostsBefore[o].subs_bond_actual
                               - CostsBefore[o].equipment_actual
                               + d.insurance_actual + d.labor_actual + d.stamps_actual
                               + d.material_actual + d.subs_bond_actual
                               + d.equipment_actual
                  /\ (CostsBefore[o].labor_actual = 100 /\ d.labor_actual = 150)
                     => t.labor = b.labor + 50
    /\ Deleted
       => \A job_id \in AskedJobs :
              get_job_cost_totals(job_id) =
                  IF str(job_id) = str(last.arg) THEN ZeroTotals ELSE TotalsBefore(job_id)

\* A week's labor was overwritten from 100 to 150 while the job held another
\* week too.
C6_Witness ==
    /\ Upserted
    /\ last.arg.labor_actual = 150
    /\ \E o \in AtKey(CostsBefore, last.arg.job_id, last.arg.week_ending) :
           CostsBefore[o].labor_actual = 100
    /\ Cardinality(OfJob(StoredCosts, last.arg.job_id)) >= 2

(* C7: after delete_job(J) no job J is stored, no weekly cost entry of J    *)
(* remains and get_weekly_costs_by_job(J) is empty, however many entries J  *)
(* had.                                                                     *)
C7_DeleteJobCascades ==
    Deleted
    => /\ \A j \in Indices(StoredJobs) : str(StoredJobs[j].id) # str(last.arg)
       /\ \A i \in Indices(weekly_costs) : str(weekly_costs[i].job_id) # str(last.arg)
       /\ get_weekly_costs_by_job(last.arg) = <<>>

\* A job with two entries was deleted, and another job's entry is still there.
C7_Witness ==
    /\ Deleted
    /\ Cardinality(OfJob(CostsBefore, last.arg)) >= 2
    /\ \E j \in Indices(last.before.jobs) : str(last.before.jobs[j].id) = str(last.arg)
    /\ StoredCosts # <<>>

----------------------------------------------------------------------------
(* Pages *)

ProfitPages == {"Home", "Dashboard", "JobCostSummary", "Profitability"}

\* The rows on display
Shown == IF view = <<>> THEN <<>> ELSE view.rows

\* The jobs as they were loaded before the last operation
LoadedBefore ==
    IF backend = "demo" THEN demo_get_all_jobs(last.before.jobs, customers)
    ELSE sheets_get_all_jobs(last.before.hdr.Jobs, last.before.jobs,
                             hdr.Customers, customers)

(* C8: a job without revenue (contract_amount = 0 and approved_change_orders
   = 0) that has costs is shown with profit 0 and margin 0, never a negative
   value, by every page that shows a profit: Home's active jobs table, the
   Dashboard, the Job Cost Summary and the Job Profitability Analysis. *)
C8_ZeroRevenueProfitZero ==
    (view # <<>> /\ view.page \in ProfitPages) =>
        \A i \in Indices(Shown) :
            (Shown[i].revenue = 0 /\ Shown[i].cost > 0) =>
                (Shown[i].profit = 0 /\ Shown[i].margin.num = 0)

\* The part of C8 the code keeps: Home shows profit 0, and every page margin 0
C8_HomeProfitAndEveryMargin ==
    (view # <<>> /\ view.page \in ProfitPages) =>
        \A i \in Indices(Shown) :
            (Shown[i].revenue = 0 /\ Shown[i].cost > 0) =>
                /\ Shown[i].margin.num = 0
                /\ view.page = "Home" => Shown[i].profit = 0

(* C9: on every page the revenue shown for a job is its contract_amount plus
   its approved_change_orders, and saving a job with only Pending COs changed
   leaves the revenue, profit and margin every page computes for every job as
   they were. *)
C9_RevenueExcludesPending ==
    /\ \A i \in Indices(Shown) :
          \E k \in Indices(StoredJobs) :
              /\ StoredJobs[k].job_number = Shown[i].job_number
              /\ Shown[i].revenue = StoredJobs[k].contract_amount
                                    + StoredJobs[k].approved_change_orders
    /\ (last.op = "edit_job" /\ ~last.raised) =>
          /\ Len(get_all_jobs) = Len(LoadedBefore)
          /\ \A i \in Indices(get_all_jobs) :
                LET now == get_all_jobs[i]
                    was == LoadedBefore[i]
                    Money(r) == <<r.revenue, r.profit, r.margin>>
                IN  /\ Money(HomeRow(now)) = Money(HomeRow(was))
                    /\ Money(DashboardRow(now)) = Money(DashboardRow(was))
                    /\ Money(SummaryRow(now)) = Money(SummaryRow(was))
                    /\ Money(ProfitRow(now)) = Money(ProfitRow(was))
                    /\ JobsListRow(now).revenue = JobsListRow(was).revenue
                    /\ CostEntryHeader(now).revenue = CostEntryHeader(was).revenue

\* A job with revenue was saved with another amount of Pending COs
C9_Witness ==
    /\ last.op = "edit_job" /\ ~last.raised
    /\ \E i \in Indices(get_all_jobs) :
          /\ i \in Indices(LoadedBefore)
          /\ get_all_jobs[i].pending_change_orders
                # LoadedBefore[i].pending_change_orders
          /\ get_all_jobs[i].contract_amount > 0
          /\ get_all_jobs[i].approved_change_orders > 0

(* C10: Home's status indicator of a job is on_track exactly when the budget
   used is at most 90 percent, watch exactly when it is above 90 and at most
   100 percent, over_budget exactly when it is above 100 percent, the budget
   used being total_cost / total_budget * 100 for a positive budget and 0
   otherwise: a budget of 1000 with costs 900, 901, 1000, 1001 shows on_track,
   watch, watch, over_budget, and a job without budget shows on_track. *)
C10_StatusIndicator ==
    (view # <<>> /\ view.page = "Home") =>
        \A i \in Indices(Shown) :
            LET r == Shown[i]
                c == 100 * r.cost
            IN  /\ r.budget > 0 =>
                      /\ r.status = "on_track" <=> c <= 90 * r.budget
                      /\ r.status = "watch" <=> (90 * r.budget < c /\ c <= 100 * r.budget)
                      /\ r.status = "over_budget" <=> c > 100 * r.budget
                /\ r.budget = 0 => r.status = "on_track"
                /\ (r.budget = 1000 /\ r.cost = 900) => r.status = "on_track"
                /\ (r.budget = 1000 /\ r.cost = 901) => r.status = "watch"
                /\ (r.budget = 1000 /\ r.cost = 1000) => r.status = "watch"
                /\ (r.budget = 1000 /\ r.cost = 1001) => r.status = "over_budget"

\* Home shows a job whose cost is exactly its budget
C10_Witness ==
    /\ view # <<>> /\ view.page = "Home"
    /\ \E i \in Indices(Shown) :
          /\ Shown[i].budget = 1000 /\ Shown[i].cost = 1000
          /\ Shown[i].status = "watch"

(* C11: get_variance_indicator(actual, budget) is none for budget 0, else
   over_budget when actual - budget is more than a tenth of the budget, watch
   when it is positive and at most a tenth (exactly 10 percent over is watch),
   on_track when actual <= budget: for budget 1000 the actuals 1000, 1095,
   1100, 1101 show on_track, watch, watch, over_budget.  Stated of the rows
   of Cost Entry's Budget vs Actual Summary. *)
C11_VarianceIndicator ==
    (view # <<>> /\ view.page = "CostEntry") =>
        \A i \in Indices(view.summary) :
            LET r == view.summary[i]
                over == r.actual - r.budget
            IN  /\ r.budget = 0 => r.status = "none"
                /\ r.budget > 0 =>
                      /\ r.status = "over_budget" <=> 10 * over > r.budget
                      /\ r.status = "watch" <=> (0 < over /\ 10 * over <= r.budget)
                      /\ r.status = "on_track" <=> r.actual <= r.budget
                /\ (r.budget = 1000 /\ r.actual = 1000) => r.status = "on_track"
                /\ (r.budget = 1000 /\ r.actual = 1095) => r.status = "watch"
                /\ (r.budget = 1000 /\ r.actual = 1100) => r.status = "watch"
                /\ (r.budget = 1000 /\ r.actual = 1101) => r.status = "over_budget"

\* The summary shows a category exactly 10 percent over its budget, and one
\* without budget
C11_Witness ==
    /\ view # <<>> /\ view.page = "CostEntry"
    /\ \E i, j \in Indices(view.summary) :
          /\ view.summary[i].budget = 1000 /\ view.summary[i].actual = 1100
          /\ view.summary[i].status = "watch"
          /\ view.summary[j].budget = 0 /\ view.summary[j].status = "none"

(* C12: the margin a page shows for a job is profit / total_revenue * 100
   when total_revenue > 0 and 0 otherwise: a job whose cost equals its
   revenue (1000 and 1000) has profit 0 and margin 0, and a job whose cost
   exceeds a positive revenue has a negative margin. *)
C12_ProfitMargin ==
    (view # <<>> /\ view.page \in ProfitPages) =>
        \A i \in Indices(Shown) :
            LET r == Shown[i]
            IN  /\ r.margin.den > 0
                /\ r.revenue > 0 =>
                      /\ r.profit = r.revenue - r.cost
                      /\ r.margin.num * r.revenue = 100 * r.profit * r.margin.den
                /\ r.revenue = 0 => r.margin.num = 0
                /\ (r.revenue = 1000 /\ r.cost = 1000) =>
                      (r.profit = 0 /\ r.margin.num = 0)
                /\ (r.revenue > 0 /\ r.cost > r.revenue) => r.margin.num < 0

\* A page shows a job at break-even next to a job without revenue
C12_Witness ==
    /\ view # <<>> /\ view.page = "Dashboard"
    /\ \E i, j \in Indices(Shown) :
          /\ Shown[i].revenue = 1000 /\ Shown[i].cost = 1000 /\ Shown[i].profit = 0
          /\ Shown[j].revenue = 0 /\ Shown[j].cost > 0

\* The sum of a field over the places S, a value that spells no number
\* counted as 0
RECURSIVE SumNumericAt(_, _, _)
SumNumericAt(costs, S, k) ==
    IF S = {} THEN 0
    ELSE LET i == CHOOSE x \in S : TRUE
         IN  (IF costs[i][k] = NonNumeric THEN 0 ELSE costs[i][k])
             + SumNumericAt(costs, S \ {i}, k)

(* C13: when an entry of a job holds a value that spells no number in one of
   its *_actual fields, get_job_cost_totals raises no error and returns the
   totals with that field counted as 0 and every other field and entry
   summed as usual, in both stores. *)
C13_NonNumericCountsZero ==
    (view # <<>> /\ view.page = "get_job_cost_totals") =>
        /\ ~view.raised
        /\ LET S == OfJob(StoredCosts, view.job_id)
           IN  /\ \A c \in DOMAIN Category :
                     view.totals[c] = SumNumericAt(StoredCosts, S, Category[c])
               /\ view.totals.total =
                     view.totals.insurance + view.totals.labor + view.totals.stamps
                     + view.totals.material + view.totals.subs_bond
                     + view.totals.equipment

\* The totals of a job were returned although one of its entries holds a
\* value that spells no number
C13_Witness ==
    /\ view # <<>> /\ view.page = "get_job_cost_totals" /\ ~view.raised
    /\ job_cost_totals_raises(SelectIdx(StoredCosts, LAMBDA c : JobMatch(c, view.job_id)))
    /\ view.totals.total > 0

\* The sum of f over the elements of a finite set of positions
SumOver(f, S) ==
    LET Sum[T \in SUBSET S] ==
            IF T = {} THEN 0
            ELSE LET i == CHOOSE x \in T : TRUE IN f[i] + Sum[T \ {i}]
    IN  Sum[S]

\* The Customer Summary that is on screen
CustomerSummary ==
    IF view # <<>> /\ view.page = "CustomerSummary" /\ ~view.raised
    THEN view.customer_data ELSE <<>>

\* The positions of the loaded jobs whose customer_id is a listed customer's id
JobsOfListed ==
    {i \in Indices(get_all_jobs) :
        \E c \in Indices(get_all_customers) :
            str(get_all_jobs[i].customer_id) = str(get_all_customers[c].id)}

\* C14: on the Customer Summary, the Total Revenue of the listed customers
\* adds up to the total_revenue of the jobs whose customer_id is a listed
\* customer's id; each of these jobs is under exactly one customer and every
\* other job is under none.
C14_CustomerSummaryRevenue ==
    (view # <<>> /\ view.page = "CustomerSummary" /\ ~view.raised) =>
        LET rows == CustomerSummary
            js == get_all_jobs
        IN  /\ Len(rows) = Len(get_all_customers)
            /\ SumOver([r \in DOMAIN rows |-> rows[r].revenue], DOMAIN rows)
               = SumOver([i \in DOMAIN js |-> total_revenue(js[i])], JobsOfListed)
            /\ \A i \in Indices(js) :
                  Cardinality({r \in DOMAIN rows : i \in rows[r].customer_jobs})
                  = IF i \in JobsOfListed THEN 1 ELSE 0

\* The summary lists a customer with two jobs while jobs of no listed customer exist
C14_Witness ==
    /\ CustomerSummary # <<>>
    /\ \E r \in DOMAIN CustomerSummary : CustomerSummary[r].jobs = 2
    /\ \E r \in DOMAIN CustomerSummary : CustomerSummary[r].revenue = 1500
    /\ JobsOfListed # Indices(get_all_jobs)
    /\ last.op = "CustomerSummary"

\* A job's profit as the claim defines it: revenue - cost with revenue, else 0
JobProfit(job) ==
    IF total_revenue(job) > 0
    THEN total_revenue(job) - get_job_cost_totals(job.id).total ELSE 0

\* C15: on the Customer Summary a customer's Profit is the sum of its jobs'
\* profits (revenue - cost for a job with revenue, 0 for a job without), and
\* its Margin % is that profit / revenue * 100, or 0 without revenue.
C15_CustomerProfitSumsJobProfits ==
    \A r \in DOMAIN CustomerSummary :
        LET row == CustomerSummary[r]
            js == get_all_jobs
            profit == SumOver([i \in DOMAIN js |-> JobProfit(js[i])],
                              row.customer_jobs)
        IN  /\ row.profit = profit
            /\ row.margin = IF row.revenue > 0 THEN Pct(profit, row.revenue)
                            ELSE ZeroPct

\* The summary lists a customer one of whose jobs has costs and no revenue
C15_Witness ==
    \E r \in DOMAIN CustomerSummary :
        \E i \in CustomerSummary[r].customer_jobs :
            /\ total_revenue(get_all_jobs[i]) = 0
            /\ get_job_cost_totals(get_all_jobs[i].id).total > 0

\* Every record of old is still at its place in new, and an inactive one is
\* still inactive
Kept(old, new) ==
    /\ Len(new) >= Len(old)
    /\ \A i \in DOMAIN old :
          /\ str(new[i].id) = str(old[i].id)
          /\ old[i].is_active = FALSE => new[i].is_active = FALSE

\* The id and name of every record, in order
IdAndName(recs) == [i \in DOMAIN recs |-> <<str(recs[i].id), recs[i].name>>]

\* The stored records that are not inactive
NotInactive(recs) == SelectIdx(recs, LAMBDA c : c.is_active # FALSE)

\* Right after a delete, every record of the deleted id is inactive
DeletedIsInactive ==
    /\ last.op = "delete_customer" =>
          \A i \in DOMAIN customers :
              str(customers[i].id) = str(last.arg) => customers[i].is_active = FALSE
    /\ last.op = "delete_vendor" =>
          \A i \in DOMAIN vendors :
              str(vendors[i].id) = str(last.arg) => vendors[i].is_active = FALSE

\* get_all_customers and get_all_vendors return the stored records that are
\* not inactive
ListedAreNotInactive ==
    /\ IdAndName(get_all_customers) = IdAndName(NotInactive(customers))
    /\ IdAndName(get_all_vendors) = IdAndName(NotInactive(vendors))

\* C16: no create, update or delete of a customer or vendor removes a record:
\* every record stays stored, a deleted record is inactive and stays so, and
\* get_all_customers (get_all_vendors) returns exactly the stored records
\* that are not inactive.
C16_SoftDeleteOnly ==
    [][/\ Kept(customers, customers')
       /\ Kept(vendors, vendors')
       /\ DeletedIsInactive'
       /\ ListedAreNotInactive']_vars

\* A customer was created and a customer has just been deleted
C16_Witness ==
    /\ last.op = "delete_customer"
    /\ Len(customers) = Len(SeedCustomers) + 1
    /\ \E i \in DOMAIN customers : customers[i].is_active = FALSE
    /\ Len(get_all_customers) = Len(customers) - 1

\* The job's customer_id is the id of a customer that is listed (active)
HasActiveCustomer(job) ==
    \E c \in Indices(get_all_customers) :
        str(get_all_customers[c].id) = str(job.customer_id)

\* C17: a job whose customer_id is the id of no active customer (empty,
\* unknown, or of a soft-deleted customer) comes out of get_all_jobs with
\* customers = None and is shown with customer "N/A", in both stores.
C17_DanglingCustomerIsNA ==
    /\ \A i \in Indices(get_all_jobs) :
          ~HasActiveCustomer(get_all_jobs[i]) => get_all_jobs[i].customers = NoneV
    /\ (view # <<>> /\ view.page = "Jobs") =>
          \A i \in DOMAIN view.rows :
              ~HasActiveCustomer(get_all_jobs[i]) => view.rows[i].customer = "N/A"

\* In the sheets store the Jobs page shows "N/A" for the job of a customer
\* that was soft-deleted, and for the jobs of an unknown and of no customer
C17_Witness ==
    /\ backend = "sheets"
    /\ view # <<>> /\ view.page = "Jobs"
    /\ \E c \in DOMAIN customers :
          /\ customers[c].is_active = FALSE
          /\ str(customers[c].id) = str(jobs[1].customer_id)
    /\ \A i \in {1, 3, 4} : view.rows[i].customer = "N/A"

\* C18: delete_customer leaves the jobs and the weekly costs as they were:
\* the jobs of the deleted customer keep their customer_id and every other
\* field, and every job's totals are what they were.
C18_DeleteCustomerLeavesJobs ==
    last.op = "delete_customer" =>
        /\ jobs = last.before.jobs
        /\ weekly_costs = last.before.costs
        /\ hdr.Jobs = last.before.hdr.Jobs
        /\ hdr.WeeklyCosts = last.before.hdr.WeeklyCosts
        /\ \A i \in DOMAIN jobs :
              get_job_cost_totals(jobs[i].id) = TotalsBefore(jobs[i].id)

\* The customer of two jobs, one of them with costs of 900, has been deleted
C18_Witness ==
    /\ last.op = "delete_customer"
    /\ Cardinality({i \in DOMAIN jobs : str(jobs[i].customer_id) = str(last.arg)}) = 2
    /\ \A c \in DOMAIN customers :
          str(customers[c].id) = str(last.arg) => customers[c].is_active = FALSE
    /\ get_job_cost_totals(jobs[1].id).total = 900

\* The form's job_number or job_name is empty, or its job_number is that of
\* a job stored when the form was submitted
NewJobRefused ==
    \/ last.arg[1] = "" \/ last.arg[2] = ""
    \/ \E i \in DOMAIN last.before.jobs :
          last.before.jobs[i].job_number = last.arg[1]

\* C19: the New Job form with an empty job_number or job_name, or with the
\* job_number of a stored job, creates no job and leaves the jobs as they
\* were; any other submission adds exactly one job.
C19_NewJobForm ==
    last.op = "new_job" =>
        IF NewJobRefused THEN jobs = last.before.jobs
        ELSE /\ Len(jobs) = Len(last.before.jobs) + 1
             /\ SubSeq(jobs, 1, Len(last.before.jobs)) = last.before.jobs
             /\ jobs[Len(jobs)].job_number = last.arg[1]
             /\ jobs[Len(jobs)].job_name = last.arg[2]

\* The form was submitted with a name and the number of a stored job, and
\* the jobs are as they were
C19_Witness ==
    /\ last.op = "new_job"
    /\ last.arg[1] # "" /\ last.arg[2] # ""
    /\ \E i \in DOMAIN last.before.jobs :
          last.before.jobs[i].job_number = last.arg[1]
    /\ jobs = last.before.jobs

\* The records of a collection are those before the last operation
SameAsBefore ==
    /\ customers = last.before.customers
    /\ vendors = last.before.vendors

\* The pairs of names in use that differ in case only
SameIgnoringCase(a, b) ==
    \/ a = b
    \/ {a, b} \in {{"Promethean Construction", "promethean construction"},
                   {"ABC Materials Supply", "abc materials supply"}}

\* The name the form was submitted with is empty, or is, ignoring case, the
\* name of one of recs
NameRefused(recs) ==
    \/ last.arg = ""
    \/ \E i \in DOMAIN recs : SameIgnoringCase(recs[i].name, last.arg)

\* An edit form saved with a name has given the record that name
EditAccepted ==
    /\ (last.op = "edit_customer" /\ ~last.raised) =>
          \E i \in DOMAIN customers :
              str(customers[i].id) = str(last.arg[1]) /\ customers[i].name = last.arg[2]
    /\ (last.op = "edit_vendor" /\ ~last.raised) =>
          \E i \in DOMAIN vendors :
              str(vendors[i].id) = str(last.arg[1]) /\ vendors[i].name = last.arg[2]

\* C20 as stated, an existing record being a stored one: the Add Customer
\* (Add Vendor) form with an empty name, or with a name that is, ignoring
\* case, the name of a stored customer (vendor), creates no record; an edit
\* to a name in use is accepted.
C20_AddRefusesStoredName ==
    /\ (last.op = "add_customer" /\ NameRefused(last.before.customers)) => SameAsBefore
    /\ (last.op = "add_vendor" /\ NameRefused(last.before.vendors)) => SameAsBefore
    /\ EditAccepted

\* C20, amended: the Add Customer (Add Vendor) form with an empty name, or
\* with a name that is, ignoring case, the name of an active customer
\* (vendor), creates no record and leaves the collection as it was; the name
\* of a soft-deleted record can be taken again, and an edit to a name in use
\* is accepted.
C20_AddRefusesActiveName ==
    /\ (last.op = "add_customer" /\ NameRefused(NotInactive(last.before.customers)))
          => SameAsBefore
    /\ (last.op = "add_vendor" /\ NameRefused(NotInactive(last.before.vendors)))
          => SameAsBefore
    /\ EditAccepted

\* Two active customers have one name after an edit, and the form has just
\* been refused a name that differs from an active customer's in case only
C20_Witness ==
    /\ last.op = "add_customer"
    /\ last.arg # ""
    /\ \E i \in DOMAIN customers :
          /\ customers[i].is_active # FALSE
          /\ customers[i].name # last.arg
          /\ SameIgnoringCase(customers[i].name, last.arg)
    /\ SameAsBefore
    /\ \E i, j \in DOMAIN customers :
          /\ i # j /\ customers[i].name = customers[j].name
          /\ customers[i].is_active # FALSE /\ customers[j].is_active # FALSE

\* No two records of a collection have one id
DistinctIds(recs) ==
    \A i, j \in DOMAIN recs : i # j => str(recs[i].id) # str(recs[j].id)

\* C21: every created record has an id that no other record of its
\* collection has, whatever the clock read at the creations.
C21_CreatedIdsDiffer ==
    /\ DistinctIds(customers)
    /\ DistinctIds(vendors)
    /\ DistinctIds(jobs)
    /\ DistinctIds(weekly_costs)

\* Two entries were inserted at different clock readings and have two ids
C21_Witness ==
    /\ last.op = "upsert_weekly_cost"
    /\ Len(weekly_costs) = Len(SeedCosts) + 2
    /\ clock > 1
    /\ DistinctIds(weekly_costs)

\* What identifies an entry and what it holds
Entry(c) ==
    <<str(c.id), str(c.job_id), str(c.week_ending), c.insurance_actual,
      c.labor_actual, c.stamps_actual, c.material_actual, c.subs_bond_actual,
      c.equipment_actual, c.man_days_actual, c.notes>>

\* C22: get_weekly_costs_by_job(J) returns the stored entries of job J, all
\* of them and no other, from the latest week_ending to the earliest.
C22_CostsByJobSortedDesc ==
    \A job_id \in AskedJobs :
        LET r == get_weekly_costs_by_job(job_id)
            S == OfJob(StoredCosts, job_id)
        IN  /\ Len(r) = Cardinality(S)
            /\ {Entry(r[i]) : i \in DOMAIN r} = {Entry(StoredCosts[i]) : i \in S}
            /\ \A i, j \in DOMAIN r :
                  i < j => r[i].week_ending.v >= r[j].week_ending.v

\* Job 1 has the entries of two weeks, stored earliest first, next to an
\* entry of job 2; the later week comes first in what is returned
C22_Witness ==
    /\ Cardinality(OfJob(StoredCosts, StrV(1))) = 2
    /\ OfJob(StoredCosts, StrV(2)) # {}
    /\ \E i, j \in OfJob(StoredCosts, StrV(1)) :
          i < j /\ StoredCosts[i].week_ending.v < StoredCosts[j].week_ending.v
    /\ get_weekly_costs_by_job(StrV(1))[1].week_ending.v
       > get_weekly_costs_by_job(StrV(1))[2].week_ending.v

\* C23: get_week_ending_date returns the most recent Saturday: at every
\* weekday and hour the date returned is a Saturday and is not after today.
C23_WeekEndingIsPastSaturday ==
    (view # <<>> /\ view.page = "get_week_ending_date") =>
        /\ weekday(view.date) = 5
        /\ view.date <= today(clock)

\* On a Saturday morning the date returned is today
C23_Witness ==
    /\ view # <<>> /\ view.page = "get_week_ending_date"
    /\ weekday(today(clock)) = 5
    /\ hour(clock) < 12
    /\ view.date = today(clock)

\* C24: get_last_n_week_endings(n) returns n dates, all of them Saturdays,
\* each 7 days before the one it follows, so that every week the Cost Entry
\* page offers is a Saturday.
C24_LastWeekEndingsAreSaturdays ==
    (view # <<>> /\ view.page = "get_last_n_week_endings") =>
        /\ Len(view.weeks) = last.arg
        /\ \A i \in DOMAIN view.weeks : weekday(view.weeks[i]) = 5
        /\ \A i \in DOMAIN view.weeks :
              i > 1 => view.weeks[i] = view.weeks[i - 1] - 7
        /\ Cardinality({view.weeks[i] : i \in DOMAIN view.weeks}) = last.arg

\* The twelve weeks of the Cost Entry page, asked for on a Wednesday
C24_Witness ==
    /\ view # <<>> /\ view.page = "get_last_n_week_endings"
    /\ last.arg = 12
    /\ weekday(today(clock)) = 2
    /\ Len(view.weeks) = 12

ReadOps ==
    {"get_all_jobs", "get_job_by_id", "get_all_weekly_costs",
     "get_weekly_costs_by_job", "get_job_cost_totals"}

\* C25: a read (get_all_jobs, get_job_by_id, get_all_weekly_costs,
\* get_weekly_costs_by_job, get_job_cost_totals) leaves every stored record
\* with the keys and the values it had.
C25_ReadsArePure ==
    last.op \in ReadOps =>
        /\ jobs = last.before.jobs
        /\ weekly_costs = last.before.costs
        /\ customers = last.before.customers
        /\ vendors = last.before.vendors
        /\ hdr = last.before.hdr

\* get_all_jobs has been called on the sheets store, which holds what it held
C25_Witness ==
    /\ last.op = "get_all_jobs"
    /\ backend = "sheets"
    /\ Len(view.result) = Len(jobs)
    /\ jobs = last.before.jobs
    /\ \A i \in DOMAIN jobs : "customers" \notin DOMAIN jobs[i]

\* C26: after any New Job submissions, job edits and job deletions of the
\* Jobs page, no two stored jobs have one job_number.
C26_JobNumbersUnique ==
    \A i, j \in DOMAIN jobs : i # j => jobs[i].job_number # jobs[j].job_number

\* In the demo store a job was created, a job was edited, and the three
\* stored jobs have three job numbers
C26_Witness ==
    /\ backend = "demo"
    /\ last.op = "edit_job"
    /\ Len(jobs) = Len(SeedJobs) + 1
    /\ Cardinality({jobs[i].job_number : i \in DOMAIN jobs}) = Len(jobs)

\* C27: upsert_weekly_cost for a key changes no entry of another key, and no
\* job, customer or vendor, whether it updates or inserts; at most one
\* entry is added.
C27_UpsertFrame ==
    Upserted =>
        LET d == last.arg
            others == DOMAIN CostsBefore \ AtKey(CostsBefore, d.job_id, d.week_ending)
        IN  /\ \A i \in others :
                  i \in DOMAIN StoredCosts /\ StoredCosts[i] = CostsBefore[i]
            /\ Len(StoredCosts) <= Len(CostsBefore) + 1
            /\ DOMAIN StoredCosts \ DOMAIN CostsBefore
                  \subseteq AtKey(StoredCosts, d.job_id, d.week_ending)
            /\ jobs = last.before.jobs
            /\ customers = last.before.customers
            /\ vendors = last.before.vendors
            /\ hdr.Jobs = last.before.hdr.Jobs

\* An upsert has changed one of the two stored entries of a job
C27_Witness ==
    /\ Upserted
    /\ AtKey(CostsBefore, last.arg.job_id, last.arg.week_ending) # {}
    /\ Cardinality(OfJob(CostsBefore, last.arg.job_id)) = 2
    /\ StoredCosts # CostsBefore
    /\ Len(StoredCosts) = Len(CostsBefore)

\* C28: Home's count of over budget jobs is the number of rows of its active
\* jobs table whose status indicator is over budget (red).
C28_OverBudgetCount ==
    (view # <<>> /\ view.page = "Home") =>
        view.over_budget_jobs
        = Cardinality({i \in DOMAIN view.rows : view.rows[i].status = "over_budget"})

\* Home counts one job over budget; its costs are 1 above its budget
C28_Witness ==
    /\ view # <<>> /\ view.page = "Home"
    /\ view.over_budget_jobs = 1
    /\ \E i \in DOMAIN view.rows :
          /\ view.rows[i].status = "over_budget"
          /\ view.rows[i].cost = view.rows[i].budget + 1

\* C29: in one session that creates jobs, deletes listed jobs and saves week
\* entries for jobs of the loaded list, every stored weekly cost entry has the
\* id of a stored job as its job_id.
C29_NoOrphanEntries ==
    \A c \in Indices(StoredCosts) :
        \E j \in Indices(StoredJobs) : StoredCosts[c].job_id = StoredJobs[j].id

\* A job with entries has been deleted, and an entry of a job the session
\* created is stored
C29_Witness ==
    /\ last.op = "delete_listed_job" /\ ~last.raised
    /\ OfJob(Content(backend, last.before.hdr.WeeklyCosts, last.before.costs),
             last.arg) # {}
    /\ \E c \in Indices(StoredCosts) : StoredCosts[c].job_id.v > 1000

\* C30: when two sessions have both finished upsert_weekly_cost for the same
\* (job_id, week_ending) on the shared sheet, whatever the order of their
\* steps, the sheet holds at most one row of that key.
BothDone == \A s \in Sessions : view[s].pc = "done"

C30_OneRowPerKeyAfterRace ==
    BothDone =>
        Cardinality(AtKey(StoredCosts, view[1].data.job_id,
                          view[1].data.week_ending)) <= 1

\* Both sessions have finished and the sheet holds one row of the key, with
\* the values of the session that wrote last
C30_Witness ==
    /\ BothDone
    /\ view[1].data.labor_actual # view[2].data.labor_actual
    /\ \E s \in Sessions :
          /\ last.arg = s
          /\ Cardinality(AtKey(StoredCosts, view[s].data.job_id,
                               view[s].data.week_ending)) = 1
          /\ \A i \in AtKey(StoredCosts, view[s].data.job_id, view[s].data.week_ending) :
                StoredCosts[i].labor_actual = view[s].data.labor_actual

====
